---- MODULE Spec2Model ----
(***************************************************************************)
(* Orbital-Mind: N-body gravity simulation (React + canvas).               *)
(*                                                                         *)
(* The model covers                                                        *)
(*   - services/physicsEngine.ts : createBody, updatePhysics               *)
(*   - components/Canvas.tsx     : reconciliation effect, frame callback,  *)
(*                                 wheel and pinch handlers                *)
(*   - components/Controls.tsx   : body edits, zoom buttons, sliders       *)
(*   - App.tsx                   : scenario load, reset, body creation     *)
(*                                                                         *)
(* Numbers.  The program computes in IEEE-754 doubles.  A double is        *)
(* modelled as an integer number of ticks, Unit ticks making 1.0, inside   *)
(* -FMax..FMax, together with the three special values +Infinity,          *)
(* -Infinity and NaN.  Every product and quotient is rounded to the grid   *)
(* (towards zero), a result beyond FMax overflows to the infinity of its   *)
(* sign, and the special values propagate as IEEE-754 prescribes.          *)
(***************************************************************************)
EXTENDS Integers, Sequences, FiniteSets, TLC

VARIABLES
    bodies,             \* App.tsx:12   useState<Body[]>
    initialBodies,      \* App.tsx:13   snapshot used by reset
    config,             \* App.tsx:14   SimulationConfig
    viewport,           \* App.tsx:15   {offset, zoom}
    isRunning,          \* App.tsx:16
    selectedBodyId,     \* App.tsx:17   0 stands for null
    interactionMode,    \* App.tsx:18   "VIEW" or "CREATE"
    hasStarted,         \* App.tsx:22
    isTransitioning,    \* App.tsx:23
    bodiesRef,          \* Canvas.tsx:36 the simulated list
    timeRef,            \* Canvas.tsx:53
    canvasSize,         \* Canvas.tsx:34 width and height of canvasRef.current
    frameLoop,          \* Canvas.tsx:35 requestRef and the frame callbacks pending
    viewportProp,       \* Canvas.tsx:25 the viewport prop of the last render of Canvas
    isDraggingRef,      \* Canvas.tsx:39
    isPanRef,           \* Canvas.tsx:40
    isCreatingRef,      \* Canvas.tsx:49
    lastMousePosRef,    \* Canvas.tsx:41
    startMousePosRef,   \* Canvas.tsx:42
    creationStartRef,   \* Canvas.tsx:50
    creationEndRef,     \* Canvas.tsx:51
    lastTouchDistanceRef, \* Canvas.tsx:45
    lastPinchCenterRef, \* Canvas.tsx:46
    nextId,             \* ids handed out so far (simpleId / Math.random ids)
    lastOp,             \* history: name of the operation that ran last
    pre,                \* history: bodiesRef as it was before that operation
    preIn,              \* history: the incoming list / snapshot the operation read
    count,              \* history: physics advances / zoom operations so far
    feeds,              \* history: list updates / pointer events so far
    emitted,            \* history: the callbacks the last pointer handler invoked
    track               \* history: what happened since the last pointer-down

vars == <<bodies, initialBodies, config, viewport, isRunning, selectedBodyId,
          interactionMode, hasStarted, isTransitioning,
          bodiesRef, timeRef, canvasSize, frameLoop, viewportProp,
          isDraggingRef, isPanRef, isCreatingRef,
          lastMousePosRef, startMousePosRef, creationStartRef, creationEndRef,
          lastTouchDistanceRef, lastPinchCenterRef, nextId, lastOp, pre, preIn,
          count, feeds, emitted, track>>

\* the refs of the pointer and touch handlers
gestureVars == <<isDraggingRef, isPanRef, isCreatingRef, lastMousePosRef,
                 startMousePosRef, creationStartRef, creationEndRef,
                 lastTouchDistanceRef, lastPinchCenterRef>>

\* the start screen and the interaction mode
screenVars == <<interactionMode, hasStarted, isTransitioning>>

\* the history of the pointer handlers
eventVars == <<emitted, track>>

-----------------------------------------------------------------------------
(* Bounds of the exploration.                                              *)

Unit      == 20      \* ticks per 1.0: the resolution of the number grid
FMax      == 50000000 \* largest finite magnitude, in ticks
MaxBodies == 2       \* longest body list
MaxTrail  == 2       \* largest trailLength the slider offers in the model
MaxSteps  == 3       \* physics advances, or zoom operations, per behaviour
MaxFeedLen == 2      \* longest list handed to the canvas on its own
MaxFeeds  == 2       \* list updates handed to the canvas on its own
MaxIds    == 6       \* body ids handed out per behaviour
MaxEvents == 3       \* pointer events (mouse and touch) per behaviour

-----------------------------------------------------------------------------
(* IEEE-754 doubles on the tick grid.                                      *)

PInf == FMax + 1
NInf == -(FMax + 1)
NaN  == FMax + 2

IsNaN(a)    == a = NaN
IsInf(a)    == a = PInf \/ a = NInf
IsFinite(a) == ~IsNaN(a) /\ ~IsInf(a)

Abs(a) == IF a < 0 THEN -a ELSE a
Sgn(a) == IF a < 0 THEN -1 ELSE IF a > 0 THEN 1 ELSE 0

\* overflow: a magnitude beyond FMax becomes the infinity of its sign
Norm(x) == IF x > FMax THEN PInf ELSE IF x < -FMax THEN NInf ELSE x

\* |a * b / c| rounded towards zero for a, b >= 0 and c > 0, saturating at
\* FMax + 1; computed from quotient and remainder so that no intermediate
\* value leaves the range of the model checker's integers
MulDivAbs(a, b, c) ==
    LET q == a \div c
        r == a % c
    IN  IF b = 0 THEN 0
        ELSE IF q > FMax \div b THEN FMax + 1
        ELSE LET v == q * b + (r * b) \div c
             IN  IF v > FMax THEN FMax + 1 ELSE v

\* a * b / c rounded towards zero (sign-symmetric, as IEEE rounding is),
\* overflowing to the infinity of its sign
MulDiv(a, b, c) == Norm(Sgn(a) * Sgn(b) * Sgn(c) * MulDivAbs(Abs(a), Abs(b), Abs(c)))

FNeg(a) == IF IsNaN(a) THEN NaN ELSE -a

FAdd(a, b) ==
    IF IsNaN(a) \/ IsNaN(b) THEN NaN
    ELSE IF IsInf(a) /\ IsInf(b) THEN (IF a = b THEN a ELSE NaN)
    ELSE IF IsInf(a) THEN a
    ELSE IF IsInf(b) THEN b
    ELSE Norm(a + b)

FSub(a, b) == FAdd(a, FNeg(b))

FMul(a, b) ==
    IF IsNaN(a) \/ IsNaN(b) THEN NaN
    ELSE IF IsInf(a) \/ IsInf(b)
         THEN (IF a = 0 \/ b = 0 THEN NaN
               ELSE IF Sgn(a) * Sgn(b) > 0 THEN PInf ELSE NInf)
    ELSE MulDiv(a, b, Unit)

FDiv(a, b) ==
    IF IsNaN(a) \/ IsNaN(b) THEN NaN
    ELSE IF IsInf(a) /\ IsInf(b) THEN NaN
    ELSE IF IsInf(a) THEN (IF Sgn(a) * (IF b < 0 THEN -1 ELSE 1) > 0
                           THEN PInf ELSE NInf)
    ELSE IF IsInf(b) THEN 0
    ELSE IF b = 0 THEN (IF a = 0 THEN NaN ELSE IF a > 0 THEN PInf ELSE NInf)
    ELSE MulDiv(a, Unit, b)

\* a power of two that is at least the square root of n (n < 2^31)
SqrtStart(n) ==
    IF n < 16 THEN 4
    ELSE IF n < 256 THEN 16
    ELSE IF n < 4096 THEN 64
    ELSE IF n < 65536 THEN 256
    ELSE IF n < 1048576 THEN 1024
    ELSE IF n < 16777216 THEN 4096
    ELSE IF n < 268435456 THEN 16384
    ELSE 65536

\* Newton's iteration downwards from a start x >= sqrt(n), for n > 0
RECURSIVE SqrtSearch(_, _)
SqrtSearch(n, x) ==
    LET y == (x + n \div x) \div 2
    IN  IF y >= x THEN x ELSE SqrtSearch(n, y)

\* floor of the square root of a natural number
ISqrt(n) == IF n = 0 THEN 0 ELSE SqrtSearch(n, SqrtStart(n))

\* Math.sqrt
FSqrt(a) ==
    IF IsNaN(a) \/ a < 0 THEN NaN
    ELSE IF a = PInf THEN PInf
    ELSE ISqrt(a * Unit)

\* comparisons: every comparison with NaN is false
FLt(a, b) == ~IsNaN(a) /\ ~IsNaN(b) /\ a < b
FGt(a, b) == ~IsNaN(a) /\ ~IsNaN(b) /\ a > b
FLe(a, b) == ~IsNaN(a) /\ ~IsNaN(b) /\ a <= b

\* Math.max / Math.min
FMaxOf(a, b) == IF IsNaN(a) \/ IsNaN(b) THEN NaN ELSE IF a >= b THEN a ELSE b
FMinOf(a, b) == IF IsNaN(a) \/ IsNaN(b) THEN NaN ELSE IF a <= b THEN a ELSE b

\* x * dt * timeScale with dt = 1/hz seconds, rounded once
ScaleDt(x, hz, ts) ==
    IF IsNaN(x) \/ IsNaN(ts) THEN NaN
    ELSE IF IsInf(x) THEN (IF ts = 0 THEN NaN
                           ELSE IF Sgn(x) * Sgn(ts) > 0 THEN PInf ELSE NInf)
    ELSE MulDiv(x, ts, hz * Unit)

Vec(x, y) == [x |-> x, y |-> y]
ZeroVec   == Vec(0, 0)

-----------------------------------------------------------------------------
(* services/physicsEngine.ts                                               *)

\* radius: Math.max(3, Math.sqrt(mass / density))
radiusOf(mass, density) == FMaxOf(3 * Unit, FSqrt(FDiv(mass, density)))

createBody(id, pos, vel, mass, color, isFixed, density) ==
    [id |-> id, mass |-> mass, density |-> density, pos |-> pos, vel |-> vel,
     radius |-> radiusOf(mass, density), color |-> color, trail |-> <<>>,
     isFixed |-> isFixed]

\* pairForce that lets bodies pass through each other without force when
\* collisions are enabled
pairForce_readsCollision(bs, cfg, forces, i, j) ==
    LET b1     == bs[i]
        b2     == bs[j]
        dx     == FSub(b2.pos.x, b1.pos.x)
        dy     == FSub(b2.pos.y, b1.pos.y)
        distSq == FAdd(FMul(dx, dx), FMul(dy, dy))
        dist   == FSqrt(distSq)
        softenedDistSq == FAdd(distSq, FMul(cfg.softening, cfg.softening))
        f      == FDiv(FMul(FMul(cfg.G, b1.mass), b2.mass), softenedDistSq)
        fx     == FMul(f, FDiv(dx, dist))
        fy     == FMul(f, FDiv(dy, dist))
    IN  IF FLt(dist, Unit) \/ cfg.collisionEnabled THEN forces
        ELSE [forces EXCEPT
                ![i] = Vec(FAdd(forces[i].x, fx), FAdd(forces[i].y, fy)),
                ![j] = Vec(FSub(forces[j].x, fx), FSub(forces[j].y, fy))]

\* pairForce that pushes both bodies of the pair the same way
pairForce_sameSign(bs, cfg, forces, i, j) ==
    LET b1     == bs[i]
        b2     == bs[j]
        dx     == FSub(b2.pos.x, b1.pos.x)
        dy     == FSub(b2.pos.y, b1.pos.y)
        distSq == FAdd(FMul(dx, dx), FMul(dy, dy))
        dist   == FSqrt(distSq)
        softenedDistSq == FAdd(distSq, FMul(cfg.softening, cfg.softening))
        f      == FDiv(FMul(FMul(cfg.G, b1.mass), b2.mass), softenedDistSq)
        fx     == FMul(f, FDiv(dx, dist))
        fy     == FMul(f, FDiv(dy, dist))
    IN  IF FLt(dist, Unit) THEN forces
        ELSE [forces EXCEPT
                ![i] = Vec(FAdd(forces[i].x, fx), FAdd(forces[i].y, fy)),
                ![j] = Vec(FAdd(forces[j].x, fx), FAdd(forces[j].y, fy))]

\* pairForce without the minimum-distance guard
pairForce_noGuard(bs, cfg, forces, i, j) ==
    LET b1     == bs[i]
        b2     == bs[j]
        dx     == FSub(b2.pos.x, b1.pos.x)
        dy     == FSub(b2.pos.y, b1.pos.y)
        distSq == FAdd(FMul(dx, dx), FMul(dy, dy))
        dist   == FSqrt(distSq)
        softenedDistSq == FAdd(distSq, FMul(cfg.softening, cfg.softening))
        f      == FDiv(FMul(FMul(cfg.G, b1.mass), b2.mass), softenedDistSq)
        fx     == FMul(f, FDiv(dx, dist))
        fy     == FMul(f, FDiv(dy, dist))
    IN  [forces EXCEPT
            ![i] = Vec(FAdd(forces[i].x, fx), FAdd(forces[i].y, fy)),
            ![j] = Vec(FSub(forces[j].x, fx), FSub(forces[j].y, fy))]

\* pairForce in which a fixed body neither attracts nor is attracted
pairForce_skipFixed(bs, cfg, forces, i, j) ==
    LET b1     == bs[i]
        b2     == bs[j]
        dx     == FSub(b2.pos.x, b1.pos.x)
        dy     == FSub(b2.pos.y, b1.pos.y)
        distSq == FAdd(FMul(dx, dx), FMul(dy, dy))
        dist   == FSqrt(distSq)
        softenedDistSq == FAdd(distSq, FMul(cfg.softening, cfg.softening))
        f      == FDiv(FMul(FMul(cfg.G, b1.mass), b2.mass), softenedDistSq)
        fx     == FMul(f, FDiv(dx, dist))
        fy     == FMul(f, FDiv(dy, dist))
    IN  IF FLt(dist, Unit) \/ b1.isFixed \/ b2.isFixed THEN forces
        ELSE [forces EXCEPT
                ![i] = Vec(FAdd(forces[i].x, fx), FAdd(forces[i].y, fy)),
                ![j] = Vec(FSub(forces[j].x, fx), FSub(forces[j].y, fy))]

\* body of the inner loop for the pair (i, j): the forces after the pair
pairForce(bs, cfg, forces, i, j) ==
    LET b1     == bs[i]
        b2     == bs[j]
        dx     == FSub(b2.pos.x, b1.pos.x)
        dy     == FSub(b2.pos.y, b1.pos.y)
        distSq == FAdd(FMul(dx, dx), FMul(dy, dy))
        dist   == FSqrt(distSq)
        softenedDistSq == FAdd(distSq, FMul(cfg.softening, cfg.softening))
        f      == FDiv(FMul(FMul(cfg.G, b1.mass), b2.mass), softenedDistSq)
        fx     == FMul(f, FDiv(dx, dist))
        fy     == FMul(f, FDiv(dy, dist))
    IN  IF FLt(dist, Unit) THEN forces
        ELSE [forces EXCEPT
                ![i] = Vec(FAdd(forces[i].x, fx), FAdd(forces[i].y, fy)),
                ![j] = Vec(FSub(forces[j].x, fx), FSub(forces[j].y, fy))]

RECURSIVE forceLoop(_, _, _, _, _)
forceLoop(bs, cfg, forces, i, j) ==
    IF i > Len(bs) THEN forces
    ELSE IF j > Len(bs) THEN forceLoop(bs, cfg, forces, i + 1, i + 2)
    ELSE forceLoop(bs, cfg, pairForce(bs, cfg, forces, i, j), i, j + 1)

accumulateForces(bs, cfg) ==
    forceLoop(bs, cfg, [k \in 1..Len(bs) |-> ZeroVec], 1, 2)

\* updateTrail that cuts a trail that is too long at its end
updateTrail_dropNewest(trail, newPos, cfg) ==
    LET distSq == IF Len(trail) > 0
                  THEN LET lastPoint == trail[Len(trail)]
                           ex == FSub(newPos.x, lastPoint.x)
                           ey == FSub(newPos.y, lastPoint.y)
                       IN  FAdd(FMul(ex, ex), FMul(ey, ey))
                  ELSE 999 * Unit
        newTrail == Append(trail, newPos)
    IN  IF FGt(distSq, 10 * Unit)
        THEN IF Len(newTrail) > cfg.trailLength
             THEN SubSeq(newTrail, 1, cfg.trailLength)
             ELSE newTrail
        ELSE trail

\* the trail after a step that moved the body to newPos
updateTrail(trail, newPos, cfg) ==
    LET distSq == IF Len(trail) > 0
                  THEN LET lastPoint == trail[Len(trail)]
                           ex == FSub(newPos.x, lastPoint.x)
                           ey == FSub(newPos.y, lastPoint.y)
                       IN  FAdd(FMul(ex, ex), FMul(ey, ey))
                  ELSE 999 * Unit
        newTrail == Append(trail, newPos)
    IN  IF FGt(distSq, 10 * Unit)
        THEN IF Len(newTrail) > cfg.trailLength
             THEN SubSeq(newTrail, Len(newTrail) - cfg.trailLength + 1, Len(newTrail))
             ELSE newTrail
        ELSE trail

\* newVel and newPos of the callback of bodies.map
newVelOf(body, force, cfg, hz) ==
    LET ax == FDiv(force.x, body.mass)
        ay == FDiv(force.y, body.mass)
    IN  Vec(FAdd(body.vel.x, ScaleDt(ax, hz, cfg.timeScale)),
            FAdd(body.vel.y, ScaleDt(ay, hz, cfg.timeScale)))

newPosOf(body, newVel, cfg, hz) ==
    Vec(FAdd(body.pos.x, ScaleDt(newVel.x, hz, cfg.timeScale)),
        FAdd(body.pos.y, ScaleDt(newVel.y, hz, cfg.timeScale)))

\* integrateBody without the early return for fixed bodies
integrateBody_moveFixed(body, force, cfg, hz) ==
    LET newVel == newVelOf(body, force, cfg, hz)
        newPos == newPosOf(body, newVel, cfg, hz)
    IN  IF IsNaN(newPos.x) \/ IsNaN(newPos.y) \/ IsNaN(newVel.x) \/ IsNaN(newVel.y)
        THEN body
        ELSE [body EXCEPT !.pos = newPos, !.vel = newVel,
                          !.trail = updateTrail(body.trail, newPos, cfg)]

\* integrateBody that advances the position with the velocity from before
\* the step
integrateBody_oldVelocity(body, force, cfg, hz) ==
    LET newVel == newVelOf(body, force, cfg, hz)
        newPos == newPosOf(body, body.vel, cfg, hz)
    IN  IF body.isFixed THEN body
        ELSE IF IsNaN(newPos.x) \/ IsNaN(newPos.y) \/ IsNaN(newVel.x) \/ IsNaN(newVel.y)
             THEN body
        ELSE [body EXCEPT !.pos = newPos, !.vel = newVel,
                          !.trail = updateTrail(body.trail, newPos, cfg)]

\* integrateBody that builds the moved body without the colour it had
integrateBody_newColor(body, force, cfg, hz) ==
    LET newVel == newVelOf(body, force, cfg, hz)
        newPos == newPosOf(body, newVel, cfg, hz)
    IN  IF body.isFixed THEN body
        ELSE IF IsNaN(newPos.x) \/ IsNaN(newPos.y) \/ IsNaN(newVel.x) \/ IsNaN(newVel.y)
             THEN body
        ELSE [body EXCEPT !.pos = newPos, !.vel = newVel, !.color = "#ffffff",
                          !.trail = updateTrail(body.trail, newPos, cfg)]

\* the callback of bodies.map: one body after the step
integrateBody(body, force, cfg, hz) ==
    LET newVel == newVelOf(body, force, cfg, hz)
        newPos == newPosOf(body, newVel, cfg, hz)
    IN  IF body.isFixed THEN body
        ELSE IF IsNaN(newPos.x) \/ IsNaN(newPos.y) \/ IsNaN(newVel.x) \/ IsNaN(newVel.y)
             THEN body
        ELSE [body EXCEPT !.pos = newPos, !.vel = newVel,
                          !.trail = updateTrail(body.trail, newPos, cfg)]

RECURSIVE mapBodies(_, _, _, _, _)
\* bodies.map((body, i) => ...), from index i on
mapBodies(bs, forces, cfg, hz, i) ==
    IF i > Len(bs) THEN <<>>
    ELSE <<integrateBody(bs[i], forces[i], cfg, hz)>> \o mapBodies(bs, forces, cfg, hz, i + 1)

\* updatePhysics(bodies, config, dt) with dt = 1/hz
updatePhysics(bs, cfg, hz) ==
    IF Len(bs) = 0 THEN bs
    ELSE mapBodies(bs, accumulateForces(bs, cfg), cfg, hz, 1)

\* an updatePhysics that pushes the new position onto the trail array of the
\* body it was given: the input list as such a call leaves it
inputAfter_pushTrail(bs, cfg, hz) ==
    [k \in 1..Len(bs) |->
        IF updatePhysics(bs, cfg, hz)[k].pos = bs[k].pos THEN bs[k]
        ELSE [bs[k] EXCEPT !.trail = Append(@, updatePhysics(bs, cfg, hz)[k].pos)]]

\* the list the caller passed, as updatePhysics(bodies, config, dt) leaves it:
\* the function assigns to its locals (forces, newVel, newPos, newTrail) only,
\* builds newTrail with a spread or a slice and each moved body with a spread
inputAfter(bs, cfg, hz) == bs

-----------------------------------------------------------------------------
(* constants.ts                                                            *)

MIN_ZOOM  == Unit \div 10
MAX_ZOOM  == 5 * Unit
SUB_STEPS == 4

\* trail lengths are scaled down: the slider offers 0..MaxTrail points, and
\* the default (100) and the largest scenario value used here (200) become
\* 1 and 2
DEFAULT_CONFIG ==
    [G |-> Unit \div 2, timeScale |-> 5 * Unit, trailLength |-> 1,
     trailFade |-> TRUE, collisionEnabled |-> FALSE, softening |-> 5 * Unit,
     showTrails |-> TRUE, showGrid |-> FALSE,
     waveAmplitude |-> 0, waveFrequency |-> (2 * Unit) \div 100]

\* window.innerWidth and window.innerHeight, in pixels
innerWidth  == 800 * Unit
innerHeight == 600 * Unit

INITIAL_VIEWPORT ==
    [offset |-> Vec(innerWidth \div 2, innerHeight \div 2), zoom |-> Unit]

\* the size handleResize gives the canvas; the mount effect of Canvas calls it
\* once, with the window as it is then
windowSize == [width |-> innerWidth, height |-> innerHeight]

-----------------------------------------------------------------------------
(* State after construction, shared by every specification.                *)

InitGestures ==
    /\ isDraggingRef = FALSE
    /\ isPanRef = FALSE
    /\ isCreatingRef = FALSE
    /\ lastMousePosRef = ZeroVec
    /\ startMousePosRef = ZeroVec
    /\ creationStartRef = ZeroVec
    /\ creationEndRef = ZeroVec
    /\ lastTouchDistanceRef = 0
    /\ lastPinchCenterRef = ZeroVec

\* no pointer-down yet: the surface is idle, no finger is on it
InitTrack ==
    [idle |-> TRUE, wasIdle |-> TRUE, fingers |-> 0,
     mode |-> "VIEW", clean |-> FALSE, inBox |-> TRUE, still |-> TRUE,
     pinched |-> FALSE, cancelled |-> FALSE,
     startWorld |-> ZeroVec, endWorld |-> ZeroVec, downPos |-> ZeroVec,
     lastPos |-> ZeroVec, offsetAtDown |-> ZeroVec, zoomAtDown |-> 0]

InitHistory ==
    /\ pre = <<>>
    /\ preIn = <<>>
    /\ count = 0
    /\ feeds = 0
    /\ emitted = <<>>
    /\ track = InitTrack

\* the useState initial values of App.tsx apart from bodies and config
InitAppState ==
    /\ initialBodies = <<>>
    /\ viewport = INITIAL_VIEWPORT
    /\ isRunning = TRUE
    /\ selectedBodyId = 0
    /\ interactionMode = "VIEW"
    /\ hasStarted = FALSE
    /\ isTransitioning = FALSE
    /\ timeRef = 0
    /\ canvasSize = windowSize

\* App and Canvas as constructed, before the mount effects have run
InitApp ==
    /\ bodies = <<>>
    /\ bodiesRef = <<>>
    /\ config = DEFAULT_CONFIG
    /\ nextId = 0
    /\ lastOp = "init"
    /\ InitAppState /\ InitGestures /\ InitHistory
    /\ frameLoop = [pending |-> 0, refPending |-> FALSE]
    /\ viewportProp = viewport

-----------------------------------------------------------------------------
(* components/Canvas.tsx: the requestAnimationFrame loop.  frameLoop.pending *)
(* counts the frame callbacks the browser holds, frameLoop.refPending says   *)
(* whether requestRef.current is the handle of one of them.                  *)

\* the loop as the effect leaves it after the canvas was mounted
oneFrame == [pending |-> 1, refPending |-> TRUE]

\* requestRef.current = requestAnimationFrame(render)
requestFrame(fl) == [pending |-> fl.pending + 1, refPending |-> TRUE]

\* if (requestRef.current) cancelAnimationFrame(requestRef.current)
cancelFrame(fl) ==
    IF fl.refPending THEN [pending |-> fl.pending - 1, refPending |-> FALSE]
    ELSE fl

\* the browser runs one pending callback, which requests the next frame in
\* its last statement
frameFired(fl) == requestFrame([pending |-> fl.pending - 1, refPending |-> FALSE])

\* the dependencies of the render callback (creationMass never changes)
renderDeps == <<config, isRunning, viewport, selectedBodyId, interactionMode>>

\* an effect that requests a frame for the new callback and leaves the old
\* request alone
rebuildRender_noCancel(fl) == requestFrame(fl)

\* useEffect(..., [render]) when the callback was rebuilt: the cleanup of the
\* previous run, then the new run
rebuildRender(fl) == requestFrame(cancelFrame(fl))

\* React renders App and Canvas with the new state before the next event is
\* handled
propsFollowState == viewportProp' = viewport'

\* what a handler means for the loop: the callback is rebuilt, and the effect
\* run again, when one of its dependencies has changed
loopFollowsDeps ==
    frameLoop' = IF renderDeps' # renderDeps THEN rebuildRender(frameLoop)
                 ELSE frameLoop

-----------------------------------------------------------------------------
(* SpecPhysics: updatePhysics as a function, applied step after step to    *)
(* one list; its inputs are drawn from the sets below.                     *)

PhysPos == {Vec(0, 0), Vec(Unit \div 2, 0), Vec(0, 5 * Unit), Vec(FMax - Unit, 0),
            Vec(-(FMax - Unit), 0)}
PhysVel == {Vec(0, 0), Vec(100 * Unit, 0), Vec(0, -(4 * Unit))}
PhysHz  == {1, 60 * SUB_STEPS}

PhysBody(id, pos, vel, mass, isFixed) ==
    createBody(id, pos, vel, mass, "c1", isFixed, Unit)

PhysLists ==
    { <<PhysBody(1, p, v, m, f)>> :
        p \in PhysPos, v \in PhysVel, m \in {4 * Unit}, f \in BOOLEAN }
    \cup
    { <<PhysBody(1, p1, v1, 4 * Unit, f1), PhysBody(2, p2, Vec(0, 0), m2, FALSE)>> :
        p1 \in PhysPos, v1 \in PhysVel, f1 \in BOOLEAN,
        p2 \in PhysPos, m2 \in {Unit, 4 * Unit} }
    \cup
    \* a heavy fixed body and a light one passing it
    { <<PhysBody(1, Vec(0, 0), Vec(0, 0), 40 * Unit, TRUE),
        PhysBody(2, Vec(0, 5 * Unit), v2, Unit, FALSE)>> : v2 \in PhysVel }

InitPhysics ==
    /\ bodiesRef \in PhysLists
    /\ config \in { [DEFAULT_CONFIG EXCEPT !.trailLength = tl, !.timeScale = ts] :
                       tl \in 0..MaxTrail, ts \in {Unit} }
    /\ bodies = <<>>
    /\ nextId = 2
    /\ lastOp = "init"
    /\ InitAppState /\ InitGestures /\ InitHistory
    /\ frameLoop = oneFrame
    /\ viewportProp = viewport

\* one call bodiesRef = updatePhysics(bodiesRef, config, 1/hz)
PhysStep ==
    /\ count < MaxSteps
    /\ \E hz \in PhysHz :
         /\ bodiesRef' = updatePhysics(bodiesRef, config, hz)
         /\ preIn' = [cfg |-> config, hz |-> hz]
         /\ pre' = inputAfter(bodiesRef, config, hz)
    /\ lastOp' = "updatePhysics"
    /\ count' = count + 1
    /\ UNCHANGED <<bodies, initialBodies, config, viewport, isRunning,
                   selectedBodyId, timeRef, gestureVars, eventVars, screenVars, canvasSize, nextId, feeds>>
    /\ loopFollowsDeps
    /\ propsFollowState

\* the trail length slider: setConfig(prev => ({...prev, trailLength}))
setTrailLength ==
    /\ \E tl \in 0..MaxTrail :
         /\ tl # config.trailLength
         /\ config' = [config EXCEPT !.trailLength = tl]
    /\ lastOp' = "setTrailLength"
    /\ UNCHANGED <<bodies, initialBodies, viewport, isRunning, selectedBodyId,
                   bodiesRef, timeRef, gestureVars, eventVars, screenVars, canvasSize, nextId, pre, preIn, count,
                   feeds>>
    /\ loopFollowsDeps
    /\ propsFollowState

NextPhysics == PhysStep \/ setTrailLength

SpecPhysics == InitPhysics /\ [][NextPhysics]_vars

-----------------------------------------------------------------------------
(* SpecClose: updatePhysics on lists that hold a pair of bodies closer     *)
(* than 1.0, with magnitudes as the application produces them.             *)

ClosePos == {Vec(0, 0), Vec(Unit \div 2, 0), Vec(0, (9 * Unit) \div 10)}
CloseVel == {Vec(0, 0), Vec(4 * Unit, 0)}

CloseLists ==
    { <<PhysBody(1, Vec(0, 0), Vec(0, 0), 5000 * Unit, f1),
        PhysBody(2, p2, v2, 100 * Unit, FALSE)>> \o far :
        f1 \in BOOLEAN, p2 \in ClosePos, v2 \in CloseVel,
        far \in {<<>>, <<PhysBody(3, Vec(5 * Unit, 0), Vec(0, 0), 5000 * Unit, FALSE)>>} }

InitClose ==
    /\ bodiesRef \in CloseLists
    /\ config \in { [DEFAULT_CONFIG EXCEPT !.trailLength = tl] : tl \in 0..MaxTrail }
    /\ bodies = <<>>
    /\ nextId = 3
    /\ lastOp = "init"
    /\ InitAppState /\ InitGestures /\ InitHistory
    /\ frameLoop = oneFrame
    /\ viewportProp = viewport

SpecClose == InitClose /\ [][NextPhysics]_vars

-----------------------------------------------------------------------------
(* components/Canvas.tsx: reconciliation effect and frame callback.        *)

\* new Map(bodiesRef.current.map(b => [b.id, b])): has and get
mapHas(internal, id) == \E k \in 1..Len(internal) : internal[k].id = id
mapGet(internal, id) ==
    internal[CHOOSE k \in 1..Len(internal) :
                /\ internal[k].id = id
                /\ \A k2 \in (k + 1)..Len(internal) : internal[k2].id # id]

isScenarioLoad(internal, incoming) ==
    /\ Len(incoming) > 0
    /\ \A i \in 1..Len(incoming) : ~mapHas(internal, incoming[i].id)

\* the merge of the else branch
mergeBodies(internal, incoming) ==
    [i \in 1..Len(incoming) |->
        LET b == incoming[i]
        IN  IF mapHas(internal, b.id)
            THEN [mapGet(internal, b.id) EXCEPT
                     !.mass = b.mass, !.density = b.density, !.radius = b.radius,
                     !.color = b.color, !.isFixed = b.isFixed]
            ELSE b]

\* reconcile where a matched body is taken from the incoming list as it is
reconcile_takeIncoming(internal, incoming) == incoming

\* reconcile where a matched body restarts its trail
reconcile_dropTrail(internal, incoming) ==
    IF isScenarioLoad(internal, incoming) \/ Len(incoming) = 0 THEN incoming
    ELSE [i \in 1..Len(incoming) |->
            IF mapHas(internal, incoming[i].id)
            THEN [mergeBodies(internal, incoming)[i] EXCEPT !.trail = <<>>]
            ELSE incoming[i]]

\* reconcile where a scenario load is added to the bodies already there
reconcile_appendLoad(internal, incoming) ==
    IF Len(incoming) = 0 THEN incoming
    ELSE IF isScenarioLoad(internal, incoming) THEN internal \o incoming
    ELSE mergeBodies(internal, incoming)

\* reconcile where an empty incoming list is ignored
reconcile_ignoreEmpty(internal, incoming) ==
    IF Len(incoming) = 0 THEN internal
    ELSE IF isScenarioLoad(internal, incoming) THEN incoming
    ELSE mergeBodies(internal, incoming)

\* the effect on [bodies]: the new bodiesRef.current
reconcile(internal, incoming) ==
    IF isScenarioLoad(internal, incoming) \/ Len(incoming) = 0 THEN incoming
    ELSE mergeBodies(internal, incoming)

RECURSIVE subSteps(_, _, _)
\* for (i = 0; i < SUB_STEPS; i++) currentBodies = updatePhysics(...)
subSteps(bs, cfg, n) ==
    IF n = 0 THEN bs
    ELSE subSteps(updatePhysics(bs, cfg, 60 * SUB_STEPS), cfg, n - 1)

\* the frame callback advancing by one undivided step of 1/60 s
frameBodies_oneStep(bs, cfg, running) ==
    IF running /\ Len(bs) > 0 THEN updatePhysics(bs, cfg, 60) ELSE bs

\* the frame callback integrating whether or not the simulation is running
frameBodies_ignorePause(bs, cfg, running) ==
    IF Len(bs) > 0 THEN subSteps(bs, cfg, SUB_STEPS) ELSE bs

\* render, part 1: the internal list after one frame callback
frameBodies(bs, cfg, running) ==
    IF running /\ Len(bs) > 0 THEN subSteps(bs, cfg, SUB_STEPS) ELSE bs

\* render: timeRef.current after one frame callback (0.01 * timeScale)
frameTime(t, cfg, running) ==
    IF running THEN FAdd(t, MulDiv(cfg.timeScale, Unit, 100 * Unit)) ELSE t

\* one animation frame
render ==
    /\ lastOp # "init"
    /\ frameLoop.pending > 0
    /\ count < MaxSteps
    /\ timeRef' = frameTime(timeRef, config, isRunning)
    /\ bodiesRef' = frameBodies(bodiesRef, config, isRunning)
    /\ pre' = bodiesRef
    /\ preIn' = [cfg |-> config, hz |-> 60 * SUB_STEPS]
    /\ lastOp' = "render"
    /\ count' = count + 1
    /\ UNCHANGED <<bodies, initialBodies, config, viewport, isRunning,
                   selectedBodyId, gestureVars, eventVars, screenVars, canvasSize, nextId, feeds>>
    /\ frameLoop' = frameFired(frameLoop)
    /\ UNCHANGED viewportProp

\* the parent renders the canvas with the isRunning prop flipped
feedIsRunning ==
    /\ isRunning' = ~isRunning
    /\ lastOp' = "feedIsRunning"
    /\ UNCHANGED <<bodies, initialBodies, config, viewport, selectedBodyId,
                   bodiesRef, timeRef, gestureVars, eventVars, screenVars, canvasSize, nextId, pre, preIn, count,
                   feeds>>
    /\ loopFollowsDeps
    /\ propsFollowState

-----------------------------------------------------------------------------
(* SpecCanvas: the Canvas component on its own; its bodies prop takes any  *)
(* list of the sets below, and every new list runs the reconciliation.     *)

FeedIds == 1..3

\* a body as the parent may supply it, in one of two variants that differ in
\* every field but the id
feedBody(id, v) ==
    IF v = 1
    THEN createBody(id, Vec(id * Unit, 0), Vec(100 * Unit, 0), 100 * Unit,
                    "c1", FALSE, Unit)
    ELSE [createBody(id, Vec(0, id * 5 * Unit), Vec(0, 0), 400 * Unit,
                     "c2", TRUE, 4 * Unit) EXCEPT !.trail = <<Vec(0, 0)>>]

RECURSIVE idSeqs(_)
\* the sequences of n ids in increasing order
idSeqs(n) ==
    IF n = 0 THEN {<<>>}
    ELSE { q \in { Append(q2, id) : q2 \in idSeqs(n - 1), id \in FeedIds } :
             n = 1 \/ q[n - 1] < q[n] }

FeedLists ==
    UNION { { [i \in 1..Len(q) |-> feedBody(q[i], v)] : q \in idSeqs(n), v \in {1, 2} } :
            n \in 0..MaxFeedLen }

InitCanvas ==
    /\ bodies \in FeedLists
    /\ bodiesRef = bodies
    /\ config = DEFAULT_CONFIG
    /\ nextId = 3
    /\ lastOp = "mount"
    /\ InitAppState /\ InitGestures /\ InitHistory
    /\ frameLoop = oneFrame
    /\ viewportProp = viewport

\* the parent renders the canvas with a new bodies prop; the effect runs
feedBodies ==
    /\ feeds < MaxFeeds
    /\ \E incoming \in FeedLists :
         /\ bodies' = incoming
         /\ bodiesRef' = reconcile(bodiesRef, incoming)
         /\ lastOp' = IF lastOp \in {"reconcile", "reconcileAgain"} /\ incoming = bodies
                      THEN "reconcileAgain" ELSE "reconcile"
    /\ pre' = bodiesRef
    /\ preIn' = bodies
    /\ feeds' = feeds + 1
    /\ UNCHANGED <<initialBodies, config, viewport, isRunning, selectedBodyId,
                   timeRef, gestureVars, eventVars, screenVars, canvasSize, nextId, count>>
    /\ loopFollowsDeps
    /\ propsFollowState

NextCanvas == feedBodies \/ render \/ feedIsRunning

SpecCanvas == InitCanvas /\ [][NextCanvas]_vars

-----------------------------------------------------------------------------
(* services/scenarios.ts: two of the presets, cut to MaxBodies bodies.     *)

Min(a, b) == IF a <= b THEN a ELSE b

\* "Solar System (Simple)": the arguments of its createBody calls
solarBodies ==
    << [pos |-> Vec(0, 0),          vel |-> Vec(0, 0),
        mass |-> 5000 * Unit, color |-> "#fbbf24", isFixed |-> TRUE],
       [pos |-> Vec(200 * Unit, 0), vel |-> Vec(0, (35 * Unit) \div 10),
        mass |-> 50 * Unit,   color |-> "#38bdf8", isFixed |-> FALSE],
       [pos |-> Vec(350 * Unit, 0), vel |-> Vec(0, (26 * Unit) \div 10),
        mass |-> 200 * Unit,  color |-> "#f87171", isFixed |-> FALSE],
       [pos |-> Vec(600 * Unit, 0), vel |-> Vec(0, 2 * Unit),
        mass |-> 150 * Unit,  color |-> "#a78bfa", isFixed |-> FALSE] >>

\* "Binary Star System"
binaryBodies ==
    << [pos |-> Vec(-(100 * Unit), 0), vel |-> Vec(0, (25 * Unit) \div 10),
        mass |-> 1000 * Unit, color |-> "#f87171", isFixed |-> FALSE],
       [pos |-> Vec(100 * Unit, 0),    vel |-> Vec(0, -((25 * Unit) \div 10)),
        mass |-> 1000 * Unit, color |-> "#38bdf8", isFixed |-> FALSE],
       [pos |-> Vec(0, 300 * Unit),    vel |-> Vec(-(2 * Unit), 0),
        mass |-> 20 * Unit,   color |-> "#a78bfa", isFixed |-> FALSE],
       [pos |-> Vec(0, -(300 * Unit)), vel |-> Vec(2 * Unit, 0),
        mass |-> 20 * Unit,   color |-> "#fbbf24", isFixed |-> FALSE] >>

SCENARIOS ==
    { [name |-> "solar", args |-> solarBodies,
       config |-> [DEFAULT_CONFIG EXCEPT !.G = Unit \div 2, !.trailLength = 2,
                                         !.trailFade = TRUE]],
      [name |-> "binary", args |-> binaryBodies,
       config |-> [DEFAULT_CONFIG EXCEPT !.G = (8 * Unit) \div 10,
                                         !.trailFade = TRUE]] }

\* scenario.getBodies(): fresh bodies, ids firstId + 1, firstId + 2, ...
getBodies(scenario, firstId) ==
    [i \in 1..Min(MaxBodies, Len(scenario.args)) |->
        LET a == scenario.args[i]
        IN  createBody(firstId + i, a.pos, a.vel, a.mass, a.color, a.isFixed, Unit)]

-----------------------------------------------------------------------------
(* App.tsx and the scenario and transport buttons of Controls.tsx.         *)

RECURSIVE heaviestOf(_, _, _)
\* generatedBodies.reduce((prev, curr) => (prev.mass > curr.mass) ? prev : curr)
heaviestOf(bs, prev, i) ==
    IF i > Len(bs) THEN prev
    ELSE heaviestOf(bs, IF FGt(prev.mass, bs[i].mass) THEN prev ELSE bs[i], i + 1)

\* the window sizes the model offers: a desktop and a phone
Windows == { [w |-> innerWidth, h |-> innerHeight],
             [w |-> 400 * Unit, h |-> 700 * Unit] }

\* the viewport loadRandomScenario sets
loadViewport(gen, win) ==
    LET centre   == Vec(win.w \div 2, win.h \div 2)
        heaviest == heaviestOf(gen, gen[1], 2)
    IN  [offset |-> IF FLt(win.w, 768 * Unit) /\ Len(gen) > 0
                    THEN Vec(FSub(centre.x, heaviest.pos.x),
                             FSub(centre.y, heaviest.pos.y))
                    ELSE centre,
         zoom |-> Unit]

\* the state changes of loadRandomScenario, with the reconciliation they cause
randomScenarioLoaded ==
    /\ nextId + MaxBodies <= MaxIds
    /\ \E scenario \in SCENARIOS, win \in Windows :
         LET gen == getBodies(scenario, nextId)
         IN  /\ bodies' = gen
             /\ initialBodies' = gen
             /\ config' = scenario.config
             /\ viewport' = loadViewport(gen, win)
             /\ bodiesRef' = reconcile(bodiesRef, gen)
             /\ nextId' = nextId + Len(gen)
    /\ pre' = bodiesRef
    /\ preIn' = bodies
    /\ UNCHANGED <<isRunning, selectedBodyId, timeRef, gestureVars, eventVars, screenVars, canvasSize,
                   count, feeds>>

\* useEffect(() => { loadRandomScenario(); }, [])
mount ==
    /\ lastOp = "init"
    /\ lastOp' = "mount"
    /\ randomScenarioLoaded
    /\ frameLoop' = requestFrame(frameLoop)
    /\ propsFollowState

\* the "Shuffle Universe" button of the start screen
loadRandomScenario ==
    /\ lastOp # "init"
    /\ ~hasStarted /\ ~isTransitioning
    /\ lastOp' = "loadRandomScenario"
    /\ randomScenarioLoaded
    /\ loopFollowsDeps
    /\ propsFollowState

\* App.handleStart: the "Launch Simulation" button
launch ==
    /\ lastOp # "init"
    /\ ~hasStarted /\ ~isTransitioning
    /\ isTransitioning' = TRUE
    /\ lastOp' = "launch"
    /\ UNCHANGED <<canvasSize, bodies, initialBodies, config, viewport, isRunning,
                   selectedBodyId, interactionMode, hasStarted, bodiesRef,
                   timeRef, gestureVars, eventVars, nextId, pre, preIn, count, feeds>>
    /\ loopFollowsDeps
    /\ propsFollowState

\* the setTimeout callback of App.handleStart
launchTimeout ==
    /\ isTransitioning
    /\ hasStarted' = TRUE
    /\ isTransitioning' = FALSE
    /\ lastOp' = "launchTimeout"
    /\ UNCHANGED <<canvasSize, bodies, initialBodies, config, viewport, isRunning,
                   selectedBodyId, interactionMode, bodiesRef, timeRef,
                   gestureVars, eventVars, nextId, pre, preIn, count, feeds>>
    /\ loopFollowsDeps
    /\ propsFollowState

\* Controls.loadScenario: a preset of the scenario menu
loadScenario ==
    /\ hasStarted
    /\ nextId + MaxBodies <= MaxIds
    /\ \E scenario \in SCENARIOS :
         LET gen == getBodies(scenario, nextId)
         IN  /\ bodies' = gen
             /\ config' = scenario.config
             /\ bodiesRef' = reconcile(bodiesRef, gen)
             /\ nextId' = nextId + Len(gen)
    /\ isRunning' = FALSE
    /\ pre' = bodiesRef
    /\ preIn' = bodies
    /\ lastOp' = "loadScenario"
    /\ UNCHANGED <<initialBodies, viewport, selectedBodyId, timeRef,
                   gestureVars, eventVars, screenVars, canvasSize, count, feeds>>
    /\ loopFollowsDeps
    /\ propsFollowState

\* handleReset where the rebuilt bodies keep the ids of the snapshot
resetBodies_keepIds(snapshot, firstId) ==
    [i \in 1..Len(snapshot) |-> [snapshot[i] EXCEPT !.trail = <<>>]]

\* the list handleReset hands to setBodies
resetBodies(snapshot, firstId) ==
    [i \in 1..Len(snapshot) |->
        [snapshot[i] EXCEPT !.id = firstId + i, !.trail = <<>>]]

\* App.handleReset: the reset button
handleReset ==
    /\ hasStarted
    /\ nextId + Len(initialBodies) <= MaxIds
    /\ LET rebuilt == resetBodies(initialBodies, nextId)
       IN  /\ bodies' = rebuilt
           /\ bodiesRef' = reconcile(bodiesRef, rebuilt)
    /\ nextId' = nextId + Len(initialBodies)
    /\ isRunning' = FALSE
    /\ selectedBodyId' = 0
    /\ pre' = bodiesRef
    /\ preIn' = bodies
    /\ lastOp' = "handleReset"
    /\ UNCHANGED <<initialBodies, config, viewport, timeRef, gestureVars, eventVars,
                   screenVars, canvasSize, count, feeds>>
    /\ loopFollowsDeps
    /\ propsFollowState

\* setIsRunning(!isRunning): the play / pause button
toggleRunning ==
    /\ hasStarted
    /\ isRunning' = ~isRunning
    /\ lastOp' = "toggleRunning"
    /\ UNCHANGED <<bodies, initialBodies, config, viewport, selectedBodyId,
                   bodiesRef, timeRef, gestureVars, eventVars, screenVars, canvasSize, nextId, pre,
                   preIn, count, feeds>>
    /\ loopFollowsDeps
    /\ propsFollowState

NextSim ==
    \/ mount \/ loadRandomScenario \/ launch \/ launchTimeout
    \/ loadScenario \/ handleReset \/ toggleRunning \/ render

\* SpecSim: the application, its body lists and the frame loop
SpecSim == InitApp /\ [][NextSim]_vars

-----------------------------------------------------------------------------
(* The viewport: wheel and touch handlers of Canvas.tsx, zoom buttons of   *)
(* Controls.tsx.  Client coordinates are pixels on the tick grid.          *)

\* getWorldPos(clientX, clientY)
getWorldPos(clientX, clientY) ==
    Vec(FDiv(FSub(clientX, viewport.offset.x), viewport.zoom),
        FDiv(FSub(clientY, viewport.offset.y), viewport.zoom))

\* Canvas.handleStart(clientX, clientY): single pointer down
handleStart(clientX, clientY) ==
    /\ startMousePosRef' = Vec(clientX, clientY)
    /\ IF interactionMode = "CREATE"
       THEN /\ isCreatingRef' = TRUE
            /\ creationStartRef' = getWorldPos(clientX, clientY)
            /\ creationEndRef' = getWorldPos(clientX, clientY)
            /\ UNCHANGED <<isDraggingRef, isPanRef, lastMousePosRef>>
       ELSE /\ isDraggingRef' = TRUE
            /\ isPanRef' = FALSE
            /\ lastMousePosRef' = Vec(clientX, clientY)
            /\ UNCHANGED <<isCreatingRef, creationStartRef, creationEndRef>>
    /\ UNCHANGED <<viewport, lastTouchDistanceRef, lastPinchCenterRef>>

\* handleMove flagging every move of a pan as a drag, without the 5-pixel test
handleMove_anyMoveDrags(clientX, clientY) ==
    /\ IF interactionMode = "CREATE"
       THEN /\ creationEndRef' = IF isCreatingRef THEN getWorldPos(clientX, clientY)
                                                   ELSE creationEndRef
            /\ UNCHANGED <<viewport, isPanRef, lastMousePosRef>>
       ELSE IF isDraggingRef
            THEN LET dx == FSub(clientX, lastMousePosRef.x)
                     dy == FSub(clientY, lastMousePosRef.y)
                 IN  /\ isPanRef' = TRUE
                     /\ viewport' = [viewport EXCEPT
                                       !.offset = Vec(FAdd(viewport.offset.x, dx),
                                                      FAdd(viewport.offset.y, dy))]
                     /\ lastMousePosRef' = Vec(clientX, clientY)
                     /\ UNCHANGED creationEndRef
            ELSE UNCHANGED <<viewport, isPanRef, lastMousePosRef, creationEndRef>>
    /\ UNCHANGED <<isDraggingRef, isCreatingRef, startMousePosRef,
                   creationStartRef, lastTouchDistanceRef, lastPinchCenterRef>>

\* handleMove adding the displacement since the pointer-down on every move
handleMove_fromStart(clientX, clientY) ==
    /\ IF interactionMode = "CREATE"
       THEN /\ creationEndRef' = IF isCreatingRef THEN getWorldPos(clientX, clientY)
                                                   ELSE creationEndRef
            /\ UNCHANGED <<viewport, isPanRef, lastMousePosRef>>
       ELSE IF isDraggingRef
            THEN LET dx == FSub(clientX, startMousePosRef.x)
                     dy == FSub(clientY, startMousePosRef.y)
                 IN  /\ isPanRef' =
                          (\/ isPanRef
                           \/ FGt(Abs(FSub(clientX, startMousePosRef.x)), 5 * Unit)
                           \/ FGt(Abs(FSub(clientY, startMousePosRef.y)), 5 * Unit))
                     /\ viewport' = [viewport EXCEPT
                                       !.offset = Vec(FAdd(viewport.offset.x, dx),
                                                      FAdd(viewport.offset.y, dy))]
                     /\ lastMousePosRef' = Vec(clientX, clientY)
                     /\ UNCHANGED creationEndRef
            ELSE UNCHANGED <<viewport, isPanRef, lastMousePosRef, creationEndRef>>
    /\ UNCHANGED <<isDraggingRef, isCreatingRef, startMousePosRef,
                   creationStartRef, lastTouchDistanceRef, lastPinchCenterRef>>

\* Canvas.handleMove(clientX, clientY): single pointer move
handleMove(clientX, clientY) ==
    /\ IF interactionMode = "CREATE"
       THEN /\ creationEndRef' = IF isCreatingRef THEN getWorldPos(clientX, clientY)
                                                   ELSE creationEndRef
            /\ UNCHANGED <<viewport, isPanRef, lastMousePosRef>>
       ELSE IF isDraggingRef
            THEN LET dx == FSub(clientX, lastMousePosRef.x)
                     dy == FSub(clientY, lastMousePosRef.y)
                 IN  /\ isPanRef' =
                          (\/ isPanRef
                           \/ FGt(Abs(FSub(clientX, startMousePosRef.x)), 5 * Unit)
                           \/ FGt(Abs(FSub(clientY, startMousePosRef.y)), 5 * Unit))
                     /\ viewport' = [viewport EXCEPT
                                       !.offset = Vec(FAdd(viewport.offset.x, dx),
                                                      FAdd(viewport.offset.y, dy))]
                     /\ lastMousePosRef' = Vec(clientX, clientY)
                     /\ UNCHANGED creationEndRef
            ELSE UNCHANGED <<viewport, isPanRef, lastMousePosRef, creationEndRef>>
    /\ UNCHANGED <<isDraggingRef, isCreatingRef, startMousePosRef,
                   creationStartRef, lastTouchDistanceRef, lastPinchCenterRef>>

\* Math.hypot
hypot(a, b) == FSqrt(FAdd(FMul(a, a), FMul(b, b)))

RECURSIVE hitTest(_, _, _, _)

\* the hit radius of a body: Math.max(b.radius * 1.5, 15 / viewport.zoom)
hitRadius(b, zoom) == FMaxOf(FMul(b.radius, (3 * Unit) \div 2), FDiv(15 * Unit, zoom))

\* hit-testing that takes the qualifying body of the lowest index
hitTest_firstIndex(bs, clickPos, zoom, i) ==
    LET hits == { k \in 1..Len(bs) :
                    FLe(hypot(FSub(clickPos.x, bs[k].pos.x), FSub(clickPos.y, bs[k].pos.y)),
                        hitRadius(bs[k], zoom)) }
    IN  IF hits = {} THEN 0 ELSE bs[CHOOSE k \in hits : \A m \in hits : k <= m].id

\* hit-testing loop of handleEnd, from index i downwards; 0 stands for null
hitTest(bs, clickPos, zoom, i) ==
    IF i = 0 THEN 0
    ELSE IF FLe(hypot(FSub(clickPos.x, bs[i].pos.x), FSub(clickPos.y, bs[i].pos.y)),
                hitRadius(bs[i], zoom))
         THEN bs[i].id
         ELSE hitTest(bs, clickPos, zoom, i - 1)

\* a callback invocation: onBodySelect(id) or onBodyCreate(pos, vel)
selectEvent(id)       == [type |-> "select", id |-> id, pos |-> ZeroVec, vel |-> ZeroVec]
createEvent(pos, vel) == [type |-> "create", id |-> 0, pos |-> pos, vel |-> vel]

\* (end - start) * velocityScale, with velocityScale = 0.05 = 5 / 100
velocityOf(end, start) ==
    LET d == FSub(end, start)
    IN  IF IsNaN(d) \/ IsInf(d) THEN d ELSE MulDiv(d, 5, 100)

\* handleEnd that runs the hit-testing whether or not the gesture was a drag
endEvents_selectAlways(clientX, clientY) ==
    IF interactionMode = "CREATE"
    THEN IF isCreatingRef
         THEN << createEvent(creationStartRef,
                   Vec(velocityOf(creationEndRef.x, creationStartRef.x),
                       velocityOf(creationEndRef.y, creationStartRef.y))) >>
         ELSE <<>>
    ELSE << selectEvent(hitTest(bodiesRef, getWorldPos(clientX, clientY),
                                viewport.zoom, Len(bodiesRef))) >>

\* handleEnd that creates a body whether or not a creation is in progress
endEvents_noCreateGuard(clientX, clientY) ==
    IF interactionMode = "CREATE"
    THEN << createEvent(creationStartRef,
               Vec(velocityOf(creationEndRef.x, creationStartRef.x),
                   velocityOf(creationEndRef.y, creationStartRef.y))) >>
    ELSE IF ~isPanRef
         THEN << selectEvent(hitTest(bodiesRef, getWorldPos(clientX, clientY),
                                     viewport.zoom, Len(bodiesRef))) >>
         ELSE <<>>

\* handleEnd that takes the creation start for the creation end
endEvents_endAtStart(clientX, clientY) ==
    IF interactionMode = "CREATE"
    THEN IF isCreatingRef THEN << createEvent(creationStartRef, ZeroVec) >> ELSE <<>>
    ELSE IF ~isPanRef
         THEN << selectEvent(hitTest(bodiesRef, getWorldPos(clientX, clientY),
                                     viewport.zoom, Len(bodiesRef))) >>
         ELSE <<>>

\* the callbacks handleEnd(clientX, clientY) invokes in the current state
endEvents(clientX, clientY) ==
    IF interactionMode = "CREATE"
    THEN IF isCreatingRef
         THEN << createEvent(creationStartRef,
                   Vec(velocityOf(creationEndRef.x, creationStartRef.x),
                       velocityOf(creationEndRef.y, creationStartRef.y))) >>
         ELSE <<>>
    ELSE IF ~isPanRef
         THEN << selectEvent(hitTest(bodiesRef, getWorldPos(clientX, clientY),
                                     viewport.zoom, Len(bodiesRef))) >>
         ELSE <<>>

\* useState(100): the mass of a body created on the canvas
creationMass == 100 * Unit

\* the palette handleCreateBody picks from, cut to its first colour
BODY_COLORS == {"#38bdf8"}

\* handleCreateBody that puts the new body in front of the list
handleCreateBody_prepend(prev, pos, vel, id) ==
    <<createBody(id, pos, vel, creationMass,
                 CHOOSE c \in BODY_COLORS : TRUE, FALSE, Unit)>> \o prev

\* the list handleCreateBody hands to setBodies
handleCreateBody(prev, pos, vel, id) ==
    Append(prev, createBody(id, pos, vel, creationMass,
                            CHOOSE c \in BODY_COLORS : TRUE, FALSE, Unit))

\* the callbacks as App wires them: onBodySelect = setSelectedBodyId,
\* onBodyCreate = handleCreateBody, and the reconciliation the new list causes
runCallbacks(events) ==
    IF events = <<>>
    THEN UNCHANGED <<bodies, bodiesRef, selectedBodyId, nextId>>
    ELSE IF events[1].type = "select"
         THEN /\ selectedBodyId' = events[1].id
              /\ UNCHANGED <<bodies, bodiesRef, nextId>>
         ELSE LET created == handleCreateBody(bodies, events[1].pos, events[1].vel,
                                              nextId + 1)
              IN  /\ bodies' = created
                  /\ bodiesRef' = reconcile(bodiesRef, created)
                  /\ nextId' = nextId + 1
                  /\ UNCHANGED selectedBodyId

\* history: a single pointer went down at (clientX, clientY)
downTrack(clientX, clientY, fingers) ==
    [track EXCEPT !.idle = FALSE, !.fingers = fingers,
                  !.mode = interactionMode, !.clean = TRUE,
                  !.inBox = TRUE, !.still = TRUE,
                  !.pinched = FALSE, !.cancelled = FALSE,
                  !.startWorld = getWorldPos(clientX, clientY),
                  !.endWorld = getWorldPos(clientX, clientY),
                  !.downPos = Vec(clientX, clientY),
                  !.lastPos = Vec(clientX, clientY),
                  !.offsetAtDown = viewport.offset,
                  !.zoomAtDown = viewport.zoom]

\* history: the single pointer moved to (clientX, clientY)
moveTrack(clientX, clientY) ==
    [track EXCEPT !.inBox = /\ @
                            /\ Abs(clientX - track.downPos.x) <= 5 * Unit
                            /\ Abs(clientY - track.downPos.y) <= 5 * Unit,
                  !.still = @ /\ Vec(clientX, clientY) = track.downPos,
                  !.lastPos = Vec(clientX, clientY),
                  !.endWorld = getWorldPos(clientX, clientY)]

\* history: handleEnd ran
upTrack ==
    [track EXCEPT !.wasIdle = track.idle, !.idle = TRUE, !.fingers = 0]

\* the client positions the model offers to the mouse handlers: the second
\* lies inside the 5-pixel box around the first, the third far outside, in
\* the middle of the desktop window
MousePoints ==
    {Vec(100 * Unit, 100 * Unit), Vec(103 * Unit, 100 * Unit), Vec(400 * Unit, 300 * Unit)}

\* what a pointer handler leaves alone apart from the refs and the viewport
pointerFrame ==
    UNCHANGED <<initialBodies, config, isRunning, screenVars, canvasSize, timeRef, count>>

\* onMouseDown
handleMouseDown ==
    /\ hasStarted
    /\ feeds < MaxEvents
    /\ \E p \in MousePoints :
         /\ handleStart(p.x, p.y)
         /\ track' = downTrack(p.x, p.y, track.fingers)
    /\ emitted' = <<>>
    /\ feeds' = feeds + 1
    /\ lastOp' = "handleMouseDown"
    /\ pointerFrame
    /\ UNCHANGED <<bodies, bodiesRef, selectedBodyId, nextId, pre, preIn>>
    /\ loopFollowsDeps
    /\ propsFollowState

\* onMouseMove
handleMouseMove ==
    /\ hasStarted
    /\ feeds < MaxEvents
    /\ \E p \in MousePoints :
         /\ handleMove(p.x, p.y)
         /\ track' = moveTrack(p.x, p.y)
         /\ preIn' = <<p>>
    /\ pre' = [viewport |-> viewport, creationEndRef |-> creationEndRef]
    /\ emitted' = <<>>
    /\ feeds' = feeds + 1
    /\ lastOp' = "handleMouseMove"
    /\ pointerFrame
    /\ UNCHANGED <<bodies, bodiesRef, selectedBodyId, nextId>>
    /\ loopFollowsDeps
    /\ propsFollowState

\* Canvas.handleEnd(clientX, clientY) with the callbacks it invokes
handleEnd(clientX, clientY) ==
    /\ IF interactionMode = "CREATE"
       THEN /\ isCreatingRef' = FALSE
            /\ UNCHANGED isDraggingRef
       ELSE /\ isDraggingRef' = FALSE
            /\ UNCHANGED isCreatingRef
    /\ emitted' = endEvents(clientX, clientY)
    /\ runCallbacks(endEvents(clientX, clientY))
    /\ UNCHANGED <<viewport, isPanRef, lastMousePosRef, startMousePosRef,
                   creationStartRef, creationEndRef, lastTouchDistanceRef,
                   lastPinchCenterRef>>

\* onMouseUp
handleMouseUp ==
    /\ hasStarted
    /\ feeds < MaxEvents
    /\ nextId < MaxIds
    /\ \E p \in MousePoints :
         /\ handleEnd(p.x, p.y)
         /\ preIn' = <<p>>
    /\ pre' = [viewport |-> viewport, creationEndRef |-> creationEndRef]
    /\ track' = upTrack
    /\ feeds' = feeds + 1
    /\ lastOp' = "handleMouseUp"
    /\ pointerFrame
    /\ loopFollowsDeps
    /\ propsFollowState

\* onMouseLeave
onMouseLeave ==
    /\ hasStarted
    /\ feeds < MaxEvents
    /\ isDraggingRef' = FALSE
    /\ isCreatingRef' = FALSE
    /\ track' = [track EXCEPT !.idle = TRUE, !.clean = FALSE]
    /\ emitted' = <<>>
    /\ feeds' = feeds + 1
    /\ lastOp' = "onMouseLeave"
    /\ pointerFrame
    /\ UNCHANGED <<bodies, bodiesRef, selectedBodyId, nextId, pre, preIn, viewport,
                   isPanRef, lastMousePosRef, startMousePosRef, creationStartRef,
                   creationEndRef, lastTouchDistanceRef, lastPinchCenterRef>>
    /\ loopFollowsDeps
    /\ propsFollowState

touchDistance(t1, t2) == hypot(FSub(t1.x, t2.x), FSub(t1.y, t2.y))
touchCenter(t1, t2) ==
    Vec(FDiv(FAdd(t1.x, t2.x), 2 * Unit), FDiv(FAdd(t1.y, t2.y), 2 * Unit))

\* the contact points the model offers, and the touch lists of one or two
TouchPoints ==
    <<Vec(100 * Unit, 100 * Unit), Vec(200 * Unit, 100 * Unit), Vec(103 * Unit, 250 * Unit)>>
TouchLists ==
    { <<TouchPoints[1]>>, <<TouchPoints[2]>>,
      <<TouchPoints[1], TouchPoints[2]>>, <<TouchPoints[1], TouchPoints[3]>> }

\* Canvas.handleTouchStart; e.touches holds the fingers now on the surface
handleTouchStart ==
    /\ hasStarted
    /\ feeds < MaxEvents
    /\ \E touches \in TouchLists :
         /\ Len(touches) > track.fingers
         /\ IF Len(touches) = 1
            THEN /\ handleStart(touches[1].x, touches[1].y)
                 /\ track' = downTrack(touches[1].x, touches[1].y, 1)
            ELSE /\ isDraggingRef' = FALSE
                 /\ isCreatingRef' = FALSE
                 /\ isPanRef' = TRUE
                 /\ lastTouchDistanceRef' = touchDistance(touches[1], touches[2])
                 /\ lastPinchCenterRef' = touchCenter(touches[1], touches[2])
                 /\ track' = [track EXCEPT !.idle = FALSE, !.fingers = 2,
                                           !.clean = FALSE, !.pinched = TRUE]
                 /\ UNCHANGED <<viewport, lastMousePosRef, startMousePosRef,
                                creationStartRef, creationEndRef>>
    /\ emitted' = <<>>
    /\ feeds' = feeds + 1
    /\ lastOp' = "handleTouchStart"
    /\ pointerFrame
    /\ UNCHANGED <<bodies, bodiesRef, selectedBodyId, nextId, pre, preIn>>
    /\ loopFollowsDeps
    /\ propsFollowState

\* the clamp of the pinch updater
pinchZoom(oldZoom, scale) == FMaxOf(MIN_ZOOM, FMinOf(MAX_ZOOM, FMul(oldZoom, scale)))

\* the updater handleTouchMove passes to setViewport; lastDist and lastCenter are
\* lastTouchDistanceRef.current and lastPinchCenterRef.current as the updater
\* finds them when it runs
pinchViewport(prev, dist, center, lastDist, lastCenter) ==
    LET scale   == FDiv(dist, lastDist)
        newZoom == pinchZoom(prev.zoom, scale)
        worldX  == FDiv(FSub(lastCenter.x, prev.offset.x), prev.zoom)
        worldY  == FDiv(FSub(lastCenter.y, prev.offset.y), prev.zoom)
    IN  [zoom |-> newZoom,
         offset |-> Vec(FSub(center.x, FMul(worldX, newZoom)),
                        FSub(center.y, FMul(worldY, newZoom)))]

\* Canvas.handleTouchMove.  React runs an updater given to setViewport either at
\* once, inside the call (nothing else is pending on the component), or at the
\* next render of App (queued), which is after the handler has returned and so
\* after the last two assignments of the handler
handleTouchMove ==
    /\ hasStarted
    /\ feeds < MaxEvents
    /\ \E touches \in TouchLists, queued \in BOOLEAN :
         /\ Len(touches) = track.fingers
         /\ queued => (Len(touches) = 2 /\ FGt(lastTouchDistanceRef, 0))
         /\ preIn' = touches
         /\ pre' = [viewport |-> viewport, creationEndRef |-> creationEndRef,
                    dist |-> lastTouchDistanceRef, center |-> lastPinchCenterRef,
                    queued |-> queued,
                    resumed |-> (lastOp = "handleTouchEnd" /\ track.fingers = 1)]
         /\ IF Len(touches) = 1
            THEN /\ handleMove(touches[1].x, touches[1].y)
                 /\ track' = moveTrack(touches[1].x, touches[1].y)
            ELSE LET dist   == touchDistance(touches[1], touches[2])
                     center == touchCenter(touches[1], touches[2])
                 IN  /\ viewport' = IF ~FGt(lastTouchDistanceRef, 0)
                                     THEN viewport
                                     ELSE IF queued
                                     THEN pinchViewport(viewport, dist, center,
                                                        dist, center)
                                     ELSE pinchViewport(viewport, dist, center,
                                                        lastTouchDistanceRef,
                                                        lastPinchCenterRef)
                     /\ lastTouchDistanceRef' = dist
                     /\ lastPinchCenterRef' = center
                     /\ track' = [track EXCEPT !.clean = FALSE]
                     /\ UNCHANGED <<isDraggingRef, isPanRef, isCreatingRef,
                                    lastMousePosRef, startMousePosRef,
                                    creationStartRef, creationEndRef>>
    /\ emitted' = <<>>
    /\ feeds' = feeds + 1
    /\ lastOp' = "handleTouchMove"
    /\ pointerFrame
    /\ UNCHANGED <<bodies, bodiesRef, selectedBodyId, nextId>>
    /\ loopFollowsDeps
    /\ propsFollowState

\* handleTouchEnd that leaves lastMousePosRef alone when one finger remains
handleTouchEnd_keepLastPos ==
    /\ hasStarted
    /\ feeds < MaxEvents
    /\ nextId < MaxIds
    /\ track.fingers > 0
    /\ \E left \in 0..(track.fingers - 1), t \in {TouchPoints[1], TouchPoints[2]} :
         /\ preIn' = <<t>>
         /\ IF left = 0
            THEN /\ emitted' = endEvents(t.x, t.y)
                 /\ runCallbacks(endEvents(t.x, t.y))
                 /\ isDraggingRef' = FALSE
                 /\ isCreatingRef' = FALSE
                 /\ track' = upTrack
                 /\ UNCHANGED lastMousePosRef
            ELSE /\ UNCHANGED lastMousePosRef
                 /\ isCreatingRef' = FALSE
                 /\ isDraggingRef' = (interactionMode = "VIEW")
                 /\ emitted' = <<>>
                 /\ track' = [track EXCEPT !.fingers = 1, !.clean = FALSE]
                 /\ UNCHANGED <<bodies, bodiesRef, selectedBodyId, nextId>>
    /\ pre' = [viewport |-> viewport, creationEndRef |-> creationEndRef]
    /\ feeds' = feeds + 1
    /\ lastOp' = "handleTouchEnd"
    /\ pointerFrame
    /\ UNCHANGED <<viewport, isPanRef, startMousePosRef, creationStartRef,
                   creationEndRef, lastTouchDistanceRef, lastPinchCenterRef>>
    /\ loopFollowsDeps
    /\ propsFollowState

\* Canvas.handleTouchEnd; e.touches holds the fingers left on the surface
handleTouchEnd ==
    /\ hasStarted
    /\ feeds < MaxEvents
    /\ nextId < MaxIds
    /\ track.fingers > 0
    /\ \E left \in 0..(track.fingers - 1), t \in {TouchPoints[1], TouchPoints[2]} :
         /\ preIn' = <<t>>
         /\ IF left = 0
            THEN /\ emitted' = endEvents(t.x, t.y)
                 /\ runCallbacks(endEvents(t.x, t.y))
                 /\ isDraggingRef' = FALSE
                 /\ isCreatingRef' = FALSE
                 /\ track' = upTrack
                 /\ UNCHANGED lastMousePosRef
            ELSE /\ lastMousePosRef' = t
                 /\ isCreatingRef' = FALSE
                 /\ isDraggingRef' = (interactionMode = "VIEW")
                 /\ emitted' = <<>>
                 /\ track' = [track EXCEPT !.fingers = 1, !.clean = FALSE]
                 /\ UNCHANGED <<bodies, bodiesRef, selectedBodyId, nextId>>
    /\ pre' = [viewport |-> viewport, creationEndRef |-> creationEndRef]
    /\ feeds' = feeds + 1
    /\ lastOp' = "handleTouchEnd"
    /\ pointerFrame
    /\ UNCHANGED <<viewport, isPanRef, startMousePosRef, creationStartRef,
                   creationEndRef, lastTouchDistanceRef, lastPinchCenterRef>>
    /\ loopFollowsDeps
    /\ propsFollowState

\* a touchcancel event: the canvas binds no handler to it
touchCancel ==
    /\ hasStarted
    /\ feeds < MaxEvents
    /\ track.fingers > 0
    /\ track' = [track EXCEPT !.fingers = 0, !.cancelled = TRUE, !.clean = FALSE]
    /\ emitted' = <<>>
    /\ feeds' = feeds + 1
    /\ lastOp' = "touchCancel"
    /\ pointerFrame
    /\ UNCHANGED <<bodies, bodiesRef, selectedBodyId, nextId, pre, preIn, viewport,
                   gestureVars>>
    /\ loopFollowsDeps
    /\ propsFollowState

\* App.toggleInteractionMode: the interactionMode prop of the canvas flips
toggleInteractionMode ==
    /\ hasStarted
    /\ interactionMode' = IF interactionMode = "VIEW" THEN "CREATE" ELSE "VIEW"
    /\ selectedBodyId' = 0
    /\ track' = [track EXCEPT !.clean = FALSE]
    /\ lastOp' = "toggleInteractionMode"
    /\ UNCHANGED <<canvasSize, bodies, initialBodies, config, viewport, isRunning, hasStarted,
                   isTransitioning, bodiesRef, timeRef, gestureVars, nextId, pre,
                   preIn, count, feeds, emitted>>
    /\ loopFollowsDeps
    /\ propsFollowState

\* the sizes a resize of the window leaves it with: a desktop and a phone
ResizedWindows == { windowSize, [width |-> 400 * Unit, height |-> 700 * Unit] }

\* a resize handler that also puts the camera back to its initial place
handleResize_resetCamera ==
    /\ lastOp # "init"
    /\ \E win \in ResizedWindows :
         /\ win # canvasSize
         /\ canvasSize' = win
    /\ viewport' = INITIAL_VIEWPORT
    /\ lastOp' = "handleResize"
    /\ UNCHANGED <<bodies, initialBodies, config, isRunning, selectedBodyId,
                   screenVars, bodiesRef, timeRef, gestureVars, eventVars, nextId,
                   pre, preIn, count, feeds>>
    /\ loopFollowsDeps
    /\ propsFollowState

\* handleResize, the listener of the window's resize event
handleResize ==
    /\ lastOp # "init"
    /\ \E win \in ResizedWindows :
         /\ win # canvasSize
         /\ canvasSize' = win
    /\ lastOp' = "handleResize"
    /\ UNCHANGED <<bodies, initialBodies, config, viewport, isRunning, selectedBodyId,
                   screenVars, bodiesRef, timeRef, gestureVars, eventVars, nextId,
                   pre, preIn, count, feeds>>
    /\ loopFollowsDeps
    /\ propsFollowState

\* e.deltaY of the wheel events the model offers, in pixels
WheelDeltas == {-(3000 * Unit), 3000 * Unit}

\* the cursor positions of the wheel events the model offers
WheelPoints == {Vec(100 * Unit, 100 * Unit), Vec(400 * Unit, 300 * Unit)}

\* the zoom handleWheel computes
wheelZoom(zoom, deltaY) ==
    FMaxOf(Unit \div 20, FMinOf(10 * Unit, FSub(zoom, MulDiv(deltaY, Unit, 1000 * Unit))))

\* Canvas.handleWheel; the event carries the cursor position and deltaY.  The
\* handler reads the viewport prop of the last render of the canvas; the canvas
\* may or may not be rendered again before the next event is handled
handleWheel ==
    /\ hasStarted
    /\ count < MaxSteps
    /\ \E deltaY \in WheelDeltas, p \in WheelPoints :
         /\ viewport' = [viewport EXCEPT !.zoom = wheelZoom(viewportProp.zoom, deltaY)]
         /\ preIn' = [deltaY |-> deltaY, clientX |-> p.x, clientY |-> p.y]
    /\ count' = count + 1
    /\ lastOp' = "handleWheel"
    /\ UNCHANGED <<bodies, initialBodies, config, isRunning, selectedBodyId,
                   screenVars, canvasSize, bodiesRef, timeRef, gestureVars, eventVars, nextId,
                   pre, feeds>>
    /\ loopFollowsDeps
    /\ \E rendered \in BOOLEAN :
         viewportProp' = IF rendered THEN viewport' ELSE viewportProp

\* Controls.handleZoomIn
handleZoomIn ==
    /\ hasStarted
    /\ count < MaxSteps
    /\ viewport' = [viewport EXCEPT
                      !.zoom = FMinOf(MAX_ZOOM, FMul(viewport.zoom, (12 * Unit) \div 10))]
    /\ count' = count + 1
    /\ lastOp' = "handleZoomIn"
    /\ UNCHANGED <<bodies, initialBodies, config, isRunning, selectedBodyId,
                   screenVars, canvasSize, bodiesRef, timeRef, gestureVars, eventVars, nextId, pre,
                   preIn, feeds>>
    /\ loopFollowsDeps
    /\ propsFollowState

\* Controls.handleZoomOut
handleZoomOut ==
    /\ hasStarted
    /\ count < MaxSteps
    /\ viewport' = [viewport EXCEPT
                      !.zoom = FMaxOf(MIN_ZOOM, FDiv(viewport.zoom, (12 * Unit) \div 10))]
    /\ count' = count + 1
    /\ lastOp' = "handleZoomOut"
    /\ UNCHANGED <<bodies, initialBodies, config, isRunning, selectedBodyId,
                   screenVars, canvasSize, bodiesRef, timeRef, gestureVars, eventVars, nextId, pre,
                   preIn, feeds>>
    /\ loopFollowsDeps
    /\ propsFollowState

\* Controls.handleResetZoom
handleResetZoom ==
    /\ hasStarted
    /\ count < MaxSteps
    /\ viewport' = INITIAL_VIEWPORT
    /\ count' = count + 1
    /\ lastOp' = "handleResetZoom"
    /\ UNCHANGED <<bodies, initialBodies, config, isRunning, selectedBodyId,
                   screenVars, canvasSize, bodiesRef, timeRef, gestureVars, eventVars, nextId, pre,
                   preIn, feeds>>
    /\ loopFollowsDeps
    /\ propsFollowState

NextView ==
    \/ mount \/ launch \/ launchTimeout
    \/ handleWheel \/ handleTouchStart \/ handleTouchMove \/ handleTouchEnd
    \/ handleZoomIn \/ handleZoomOut \/ handleResetZoom

\* SpecView: the application, its viewport and the handlers that change it
SpecView == InitApp /\ [][NextView]_vars

-----------------------------------------------------------------------------
(* The body editor of Controls.tsx.                                        *)

\* bodies.find(b => b.id === selectedBodyId) finds a body
hasSelectedBody == \E i \in 1..Len(bodies) : bodies[i].id = selectedBodyId

\* the values the mass and density inputs hand to the handlers; they straddle
\* the clamps 0.1 .. 1,000,000 and 0.1 .. 20
MassInputs    == {Unit \div 20, 50 * Unit, 2000000 * Unit}
DensityInputs == {2 * Unit, 100 * Unit}

\* the mass updateSelectedBodyMass stores
clampMass(newMass) ==
    FMaxOf(Unit \div 10, FMinOf(1000000 * Unit, IF IsNaN(newMass) THEN Unit ELSE newMass))

\* the density updateSelectedBodyDensity stores
clampDensity(newDensity) == FMaxOf(Unit \div 10, FMinOf(20 * Unit, newDensity))

\* b.density || 1
densityOr1(b) == IF b.density = 0 \/ IsNaN(b.density) THEN Unit ELSE b.density

\* the mass edit that leaves the radius as it was
massEdited_keepRadius(prev, id, newMass) ==
    [i \in 1..Len(prev) |->
        IF prev[i].id = id THEN [prev[i] EXCEPT !.mass = clampMass(newMass)]
        ELSE prev[i]]

\* the list updateSelectedBodyMass hands to setBodies
massEdited(prev, id, newMass) ==
    [i \in 1..Len(prev) |->
        IF prev[i].id = id
        THEN [prev[i] EXCEPT !.mass = clampMass(newMass),
                             !.radius = FMaxOf(3 * Unit,
                                 FSqrt(FDiv(clampMass(newMass), densityOr1(prev[i]))))]
        ELSE prev[i]]

\* the list updateSelectedBodyDensity hands to setBodies
densityEdited(prev, id, newDensity) ==
    [i \in 1..Len(prev) |->
        IF prev[i].id = id
        THEN [prev[i] EXCEPT !.density = clampDensity(newDensity),
                             !.radius = FMaxOf(3 * Unit,
                                 FSqrt(FDiv(prev[i].mass, clampDensity(newDensity))))]
        ELSE prev[i]]

\* the list toggleSelectedBodyFixed hands to setBodies
fixedToggled(prev, id) ==
    [i \in 1..Len(prev) |->
        IF prev[i].id = id THEN [prev[i] EXCEPT !.isFixed = ~prev[i].isFixed]
        ELSE prev[i]]

\* what an edit of the selected body leaves alone
editFrame ==
    /\ pre' = bodiesRef
    /\ preIn' = bodies
    /\ count' = count + 1
    /\ UNCHANGED <<initialBodies, config, viewport, isRunning, selectedBodyId,
                   timeRef, gestureVars, eventVars, screenVars, canvasSize, nextId, feeds>>

\* Controls.updateSelectedBodyMass, from the mass slider or number input
updateSelectedBodyMass ==
    /\ hasStarted /\ hasSelectedBody
    /\ count < MaxSteps
    /\ \E newMass \in MassInputs :
         /\ bodies' = massEdited(bodies, selectedBodyId, newMass)
         /\ bodiesRef' = reconcile(bodiesRef, massEdited(bodies, selectedBodyId, newMass))
    /\ lastOp' = "updateSelectedBodyMass"
    /\ editFrame
    /\ loopFollowsDeps
    /\ propsFollowState

\* Controls.updateSelectedBodyDensity, from the density slider or number input
updateSelectedBodyDensity ==
    /\ hasStarted /\ hasSelectedBody
    /\ count < MaxSteps
    /\ \E newDensity \in DensityInputs :
         /\ bodies' = densityEdited(bodies, selectedBodyId, newDensity)
         /\ bodiesRef' = reconcile(bodiesRef,
                                   densityEdited(bodies, selectedBodyId, newDensity))
    /\ lastOp' = "updateSelectedBodyDensity"
    /\ editFrame
    /\ loopFollowsDeps
    /\ propsFollowState

\* Controls.toggleSelectedBodyFixed: the lock button
toggleSelectedBodyFixed ==
    /\ hasStarted /\ hasSelectedBody
    /\ count < MaxSteps
    /\ bodies' = fixedToggled(bodies, selectedBodyId)
    /\ bodiesRef' = reconcile(bodiesRef, fixedToggled(bodies, selectedBodyId))
    /\ lastOp' = "toggleSelectedBodyFixed"
    /\ editFrame
    /\ loopFollowsDeps
    /\ propsFollowState

NextEdit ==
    \/ mount \/ launch \/ launchTimeout
    \/ handleMouseUp
    \/ updateSelectedBodyMass \/ updateSelectedBodyDensity \/ toggleSelectedBodyFixed
    \/ render \/ handleReset

\* SpecEdit: the application with its body editor; the mount effect is the
\* scenario load.  A release over the canvas selects a body wherever the button
\* was pressed (handleEnd does not test isDraggingRef), so the press is left to
\* SpecPointer.
SpecEdit == InitApp /\ [][NextEdit]_vars

-----------------------------------------------------------------------------
(* SpecPointer: the canvas of a started application under mouse and touch  *)
(* events, in either interaction mode.  Controls.tsx never calls           *)
(* onToggleMode, so the application itself stays in VIEW mode; here the    *)
(* interactionMode prop takes both values.                                 *)

\* bodies under and near the client point (100, 100) of the views below
hitBody(id, x, mass) ==
    createBody(id, Vec(x * Unit, 100 * Unit), ZeroVec, mass * Unit, "c1", TRUE, Unit)

PointerLists ==
    { << hitBody(1, 100, 4), hitBody(2, 110, 100) >>,
      << hitBody(1, 110, 100), hitBody(2, 100, 4) >> }

PointerViews ==
    { [offset |-> ZeroVec, zoom |-> Unit],
      [offset |-> Vec(50 * Unit, 50 * Unit), zoom |-> Unit \div 2] }

InitPointer ==
    /\ bodies \in PointerLists
    /\ bodiesRef = bodies
    /\ initialBodies = bodies
    /\ config = DEFAULT_CONFIG
    /\ viewport \in PointerViews
    /\ interactionMode = "VIEW"
    /\ hasStarted = TRUE
    /\ isTransitioning = FALSE
    /\ isRunning = FALSE
    /\ selectedBodyId = 0
    /\ timeRef = 0
    /\ canvasSize = windowSize
    /\ nextId = 2
    /\ lastOp = "launchTimeout"
    /\ InitGestures /\ InitHistory
    /\ frameLoop = oneFrame
    /\ viewportProp = viewport

NextPointer ==
    \/ handleMouseDown \/ handleMouseMove \/ handleMouseUp \/ onMouseLeave
    \/ handleTouchStart \/ handleTouchMove \/ handleTouchEnd \/ touchCancel
    \/ toggleInteractionMode

SpecPointer == InitPointer /\ [][NextPointer]_vars

\* SpecCreate: bodies are created with the mouse while the frame loop advances
\* the simulation; the canvas starts with no body or with two moving ones
movingBody(id, x, vx) ==
    createBody(id, Vec(x * Unit, 0), Vec(vx * Unit, 0), 100 * Unit, "c1", FALSE, Unit)

CreateLists == { <<>>, << movingBody(1, 0, 10), movingBody(2, 200, -10) >> }

InitCreate ==
    /\ bodies \in CreateLists
    /\ bodiesRef = bodies
    /\ initialBodies = bodies
    /\ config = DEFAULT_CONFIG
    /\ viewport \in PointerViews
    /\ interactionMode = "CREATE"
    /\ hasStarted = TRUE
    /\ isTransitioning = FALSE
    /\ isRunning = TRUE
    /\ selectedBodyId = 0
    /\ timeRef = 0
    /\ canvasSize = windowSize
    /\ nextId = 2
    /\ lastOp = "launchTimeout"
    /\ InitGestures /\ InitHistory
    /\ frameLoop = oneFrame
    /\ viewportProp = viewport

NextCreate == handleMouseDown \/ handleMouseMove \/ handleMouseUp \/ render

SpecCreate == InitCreate /\ [][NextCreate]_vars

\* SpecResize: the window is resized while a pan, a creation or a pinch is in
\* progress
NextResize ==
    \/ handleMouseDown \/ handleMouseMove
    \/ handleTouchStart \/ handleTouchMove
    \/ toggleInteractionMode \/ handleResize

SpecResize == InitPointer /\ [][NextResize]_vars

\* SpecSelect: the application with selection by a click on the canvas and
\* the operations that replace the body list
NextSelect ==
    \/ mount \/ launch \/ launchTimeout
    \/ handleMouseUp \/ loadScenario \/ handleReset

SpecSelect == InitApp /\ [][NextSelect]_vars

-----------------------------------------------------------------------------
(* Properties of updatePhysics.                                            *)

FiniteVec(v)  == IsFinite(v.x) /\ IsFinite(v.y)
AllFinite(bs) == \A i \in 1..Len(bs) : FiniteVec(bs[i].pos) /\ FiniteVec(bs[i].vel)

\* the list without its j-th body
RemoveAt(bs, j) == SubSeq(bs, 1, j - 1) \o SubSeq(bs, j + 1, Len(bs))

\* distance below 1.0
ClosePair(a, b) ==
    LET dx == FSub(b.pos.x, a.pos.x)
        dy == FSub(b.pos.y, a.pos.y)
    IN  FLt(FSqrt(FAdd(FMul(dx, dx), FMul(dy, dy))), Unit)

\* C7: a body with isFixed = true has the same pos, vel and trail (the same
\* record) after every step of every behaviour, whatever force the step
\* accumulated on it.
C7_FixedBodyInvariance ==
    [][\A i \in 1..Len(bodiesRef) :
         bodiesRef[i].isFixed =>
            /\ Len(bodiesRef') = Len(bodiesRef)
            /\ bodiesRef'[i] = bodiesRef[i]]_vars

\* a second or later step has run on a list whose fixed body carries a
\* velocity and had a non-zero force accumulated on it
C7_Witness ==
    /\ lastOp = "updatePhysics"
    /\ count >= 2
    /\ \E i \in 1..Len(pre) :
         /\ pre[i].isFixed
         /\ pre[i].vel # ZeroVec
         /\ accumulateForces(pre, preIn.cfg)[i] # ZeroVec
         /\ bodiesRef[i] = pre[i]

\* C8: after any updatePhysics step every body of the returned list has at
\* most config.trailLength trail points, also when trailLength was lowered
\* since the previous step.
C8_TrailBound ==
    lastOp = "updatePhysics" =>
        \A i \in 1..Len(bodiesRef) : Len(bodiesRef[i].trail) <= config.trailLength

\* C9: a body whose new position or new velocity has a non-finite component
\* is returned as it was, so a step on a list of finite bodies returns a list
\* of finite bodies.
C9_NonFiniteDiscarded ==
    lastOp = "updatePhysics" =>
        /\ \A i \in 1..Len(pre) :
              LET force  == accumulateForces(pre, preIn.cfg)[i]
                  newVel == newVelOf(pre[i], force, preIn.cfg, preIn.hz)
                  newPos == newPosOf(pre[i], newVel, preIn.cfg, preIn.hz)
              IN  (~FiniteVec(newVel) \/ ~FiniteVec(newPos)) => bodiesRef[i] = pre[i]
        /\ AllFinite(pre) => AllFinite(bodiesRef)

-----------------------------------------------------------------------------
(* Properties of the reconciliation.                                       *)

Reconciled == lastOp \in {"reconcile", "reconcileAgain"}

IdsOf(bs) == { bs[i].id : i \in 1..Len(bs) }

SameMotion(a, b) == a.pos = b.pos /\ a.vel = b.vel /\ a.trail = b.trail

SameParams(a, b) ==
    /\ a.mass = b.mass /\ a.density = b.density /\ a.radius = b.radius
    /\ a.color = b.color /\ a.isFixed = b.isFixed

\* C2: when the incoming list shares an id with the internal list, every
\* incoming body whose id matches an internal body ends up with the incoming
\* mass, density, radius, color and isFixed and with the pos, vel and trail
\* of the internal body, however many frames the simulation has advanced.
C2_PropertyEditKeepsMotion ==
    (Reconciled /\ IdsOf(bodies) \cap IdsOf(pre) # {}) =>
        /\ Len(bodiesRef) = Len(bodies)
        /\ \A i \in 1..Len(bodies) : \A k \in 1..Len(pre) :
              pre[k].id = bodies[i].id =>
                 /\ bodiesRef[i].id = bodies[i].id
                 /\ SameParams(bodiesRef[i], bodies[i])
                 /\ SameMotion(bodiesRef[i], pre[k])

\* a property edit arrived after a frame: a matched body differs from the
\* incoming one in pos, vel and trail and from the internal one in mass and
\* isFixed
C2_Witness ==
    /\ Reconciled
    /\ count >= 1
    /\ \E i \in 1..Len(bodies) : \E k \in 1..Len(pre) :
         /\ pre[k].id = bodies[i].id
         /\ pre[k].pos # bodies[i].pos
         /\ pre[k].vel # bodies[i].vel
         /\ pre[k].trail # bodies[i].trail
         /\ pre[k].mass # bodies[i].mass
         /\ pre[k].isFixed # bodies[i].isFixed
         /\ bodiesRef[i].pos = pre[k].pos
         /\ bodiesRef[i].mass = bodies[i].mass

\* C3: when the incoming list is non-empty and shares no id with the internal
\* list, the internal list afterwards equals the incoming list element for
\* element, pos, vel and trail included.
C3_ScenarioLoadReplaces ==
    (Reconciled /\ Len(bodies) > 0 /\ IdsOf(bodies) \cap IdsOf(pre) = {}) =>
        bodiesRef = bodies

\* a list of unseen ids, one of them with a trail, replaced a non-empty
\* internal list that frames had advanced
C3_Witness ==
    /\ Reconciled
    /\ count >= 1
    /\ Len(pre) > 0
    /\ Len(bodies) > 0
    /\ IdsOf(bodies) \cap IdsOf(pre) = {}
    /\ \E i \in 1..Len(bodies) : bodies[i].trail # <<>>
    /\ bodiesRef = bodies

\* C4: an empty incoming list clears the internal list, whatever it held.
C4_EmptyListClears ==
    (Reconciled /\ Len(bodies) = 0) => bodiesRef = <<>>

\* an empty list arrived while the internal list held advanced bodies
C4_Witness ==
    /\ Reconciled
    /\ Len(bodies) = 0
    /\ Len(pre) = MaxFeedLen
    /\ count >= 1
    /\ bodiesRef = <<>>

\* C5: feeding a list with the ids of the internal list leaves pos, vel and
\* trail of every internal body unchanged, the first time and when the same
\* list is fed again right after.
C5_ReconcileIdempotent ==
    (Reconciled /\ IdsOf(bodies) = IdsOf(pre)) =>
        /\ Len(bodiesRef) = Len(pre)
        /\ \A k \in 1..Len(pre) : \E i \in 1..Len(bodiesRef) :
              bodiesRef[i].id = pre[k].id /\ SameMotion(bodiesRef[i], pre[k])

\* the same list, with the ids of the internal list, was fed twice in a row
\* after the simulation had moved the bodies away from the supplied positions
C5_Witness ==
    /\ lastOp = "reconcileAgain"
    /\ Len(pre) > 0
    /\ IdsOf(bodies) = IdsOf(pre)
    /\ bodies = preIn
    /\ \E i \in 1..Len(bodies) :
         bodiesRef[i].pos # bodies[i].pos /\ bodiesRef[i].trail # bodies[i].trail
    /\ bodiesRef = pre

-----------------------------------------------------------------------------
(* Properties of the application.                                          *)

\* C6: reset rebuilds the list from the stored snapshot with a new id for
\* every body and an empty trail, the reconciliation takes it as a scenario
\* load, and afterwards every internal body has the snapshot's pos and vel
\* and an empty trail, however far the simulation had advanced.
C6_ResetRestoresSnapshot ==
    lastOp = "handleReset" =>
        /\ Len(bodiesRef) = Len(initialBodies)
        /\ Len(initialBodies) > 0 => isScenarioLoad(pre, bodies)
        /\ \A i \in 1..Len(bodiesRef) :
              /\ bodiesRef[i].id \notin IdsOf(pre) \cup IdsOf(initialBodies)
              /\ bodiesRef[i].pos = initialBodies[i].pos
              /\ bodiesRef[i].vel = initialBodies[i].vel
              /\ bodiesRef[i].trail = <<>>

\* reset ran after two frames or more had moved a body of the snapshot away
\* from its initial position and given it a trail
C6_Witness ==
    /\ lastOp = "handleReset"
    /\ count >= 2
    /\ Len(pre) = Len(initialBodies)
    /\ \E i \in 1..Len(pre) :
         /\ pre[i].pos # initialBodies[i].pos
         /\ pre[i].trail # <<>>
         /\ bodiesRef[i].pos = initialBodies[i].pos
         /\ bodiesRef[i].trail = <<>>

\* C1: in every reachable state viewport.zoom lies in [MIN_ZOOM, MAX_ZOOM].
C1_ZoomClamped ==
    FLe(MIN_ZOOM, viewport.zoom) /\ FLe(viewport.zoom, MAX_ZOOM)

-----------------------------------------------------------------------------
(* Properties of the body editor.                                          *)

RadiusConsistent(bs) ==
    \A i \in 1..Len(bs) : bs[i].radius = FMaxOf(3 * Unit, FSqrt(FDiv(bs[i].mass, bs[i].density)))

\* C11: every body of the parent's list, of the simulated list and of the
\* reset snapshot has radius = max(3, sqrt(mass / density)), in every
\* reachable state.
C11_RadiusConsistent ==
    RadiusConsistent(bodies) /\ RadiusConsistent(bodiesRef) /\ RadiusConsistent(initialBodies)

\* a mass edit changed the radius of the selected body, and frames have run
C11_Witness ==
    /\ lastOp = "render"
    /\ isRunning
    /\ \E i \in 1..Len(bodiesRef) : \E k \in 1..Len(initialBodies) :
         /\ bodiesRef[i].id = selectedBodyId
         /\ bodiesRef[i].id = initialBodies[k].id
         /\ bodiesRef[i].mass # initialBodies[k].mass
         /\ bodiesRef[i].radius # initialBodies[k].radius

-----------------------------------------------------------------------------
(* Properties of the wheel, the pinch and the pointer gestures.            *)

\* the offset that keeps the world point under screen point f where it is,
\* when viewport v changes its zoom to newZoom
anchoredOffset(v, f, newZoom) ==
    Vec(FSub(f.x, FMul(FDiv(FSub(f.x, v.offset.x), v.zoom), newZoom)),
        FSub(f.y, FMul(FDiv(FSub(f.y, v.offset.y), v.zoom), newZoom)))

\* C12: a wheel event leaves the world point under the cursor under the
\* cursor: offset' = screenFocus - worldUnderFocus * zoom', to within a pixel.
C12_WheelKeepsFocus ==
    [][lastOp' = "handleWheel" =>
         LET f      == Vec(preIn'.clientX, preIn'.clientY)
             wanted == anchoredOffset(viewport, f, viewport'.zoom)
         IN  /\ Abs(viewport'.offset.x - wanted.x) <= Unit
             /\ Abs(viewport'.offset.y - wanted.y) <= Unit]_vars

\* the screen point at which viewport v draws world point w
toScreen(v, w) ==
    Vec(FAdd(FMul(w.x, v.zoom), v.offset.x), FAdd(FMul(w.y, v.zoom), v.offset.y))

\* the world point viewport v draws at screen point s
toWorld(v, s) ==
    Vec(FDiv(FSub(s.x, v.offset.x), v.zoom), FDiv(FSub(s.y, v.offset.y), v.zoom))

\* a move of two fingers that found a positive recorded distance
PinchMoved ==
    /\ lastOp = "handleTouchMove"
    /\ Len(preIn) = 2
    /\ FGt(pre.dist, 0)

\* C13: after a two-finger move with a positive recorded distance the zoom is
\* clamp(old zoom * current distance / recorded distance, MIN_ZOOM, MAX_ZOOM),
\* the world point that was under the recorded midpoint is drawn at the current
\* midpoint, and the recorded distance and midpoint are the current ones.
C13_PinchIncremental ==
    PinchMoved =>
        LET dist   == touchDistance(preIn[1], preIn[2])
            center == touchCenter(preIn[1], preIn[2])
            scaled == FMul(pre.viewport.zoom, FDiv(dist, pre.dist))
        IN  /\ viewport.zoom = (IF FLt(scaled, MIN_ZOOM) THEN MIN_ZOOM
                                ELSE IF FGt(scaled, MAX_ZOOM) THEN MAX_ZOOM
                                ELSE scaled)
            /\ toScreen(viewport, toWorld(pre.viewport, pre.center)) = center
            /\ lastTouchDistanceRef = dist
            /\ lastPinchCenterRef = center

\* the last handler was a pointer-up that ended the gesture of a single
\* pointer which went down and was neither pinched, cancelled nor interrupted
EndedGesture(mode) ==
    /\ lastOp \in {"handleMouseUp", "handleTouchEnd"}
    /\ ~track.wasIdle
    /\ track.clean
    /\ track.mode = mode

\* C14: a VIEW-mode gesture of pointer-down, moves within 5 pixels of the down
\* position on both axes, and pointer-up emits exactly one selection event;
\* with no displacement at all the viewport offset is the one at pointer-down.
C14_ClickSelects ==
    (EndedGesture("VIEW") /\ track.inBox) =>
        /\ Len(emitted) = 1
        /\ emitted[1].type = "select"
        /\ (track.still => viewport.offset = track.offsetAtDown)

\* a click whose pointer moved inside the box, released on a body
C14_Witness ==
    /\ EndedGesture("VIEW")
    /\ track.inBox
    /\ ~track.still
    /\ Len(emitted) = 1
    /\ emitted[1].type = "select"
    /\ emitted[1].id # 0

\* C15: once a move of a VIEW-mode gesture is more than 5 pixels from the down
\* position on an axis, the gesture is flagged as a drag for as long as it
\* lasts, and its pointer-up emits no event, wherever the pointer is released.
C15_DragNeverSelects ==
    /\ (~track.idle /\ track.clean /\ track.mode = "VIEW" /\ ~track.inBox) => isPanRef
    /\ (EndedGesture("VIEW") /\ ~track.inBox) => emitted = <<>>

\* a drag released at the position where the pointer went down
C15_Witness ==
    /\ EndedGesture("VIEW")
    /\ ~track.inBox
    /\ preIn = <<track.downPos>>
    /\ viewport.offset # track.offsetAtDown
    /\ emitted = <<>>

\* the bodies of the internal list within the hit radius of world point w
Qualifying(w) ==
    { k \in 1..Len(bodiesRef) :
        LET dx == FSub(w.x, bodiesRef[k].pos.x)
            dy == FSub(w.y, bodiesRef[k].pos.y)
            r  == FMul(bodiesRef[k].radius, (3 * Unit) \div 2)
            m  == FDiv(15 * Unit, viewport.zoom)
        IN  FLe(FSqrt(FAdd(FMul(dx, dx), FMul(dy, dy))), IF FGt(r, m) THEN r ELSE m) }

\* the last handler was a pointer-up that emitted a selection event
Selected ==
    /\ lastOp \in {"handleMouseUp", "handleTouchEnd"}
    /\ Len(emitted) = 1
    /\ emitted[1].type = "select"

\* C16: the selection a pointer-up emits names the body of highest index in the
\* internal list among those within max(radius * 1.5, 15 / zoom) of the release
\* point in world coordinates, and no body (0) if there is none; the
\* application takes it as its selection.
C16_TopmostHit ==
    Selected =>
        LET q == Qualifying(toWorld(viewport, preIn[1]))
        IN  /\ emitted[1].id = (IF q = {} THEN 0
                                ELSE bodiesRef[CHOOSE k \in q : \A m \in q : m <= k].id)
            /\ selectedBodyId = emitted[1].id

\* a click released where two bodies qualify, the one of lower index nearer
C16_Witness ==
    /\ Selected
    /\ ~track.wasIdle /\ track.clean
    /\ Cardinality(Qualifying(toWorld(viewport, preIn[1]))) = 2
    /\ bodiesRef[1].pos = toWorld(viewport, preIn[1])
    /\ emitted[1].id = bodiesRef[2].id

\* C17: in CREATE mode a pointer-down followed by a pointer-up emits exactly
\* one create-body event, at the world point of the pointer-down and with
\* velocity (end - start) * 0.05, end being the world point of the last move;
\* without a move the velocity is (0, 0).  The application appends that body.
C17_CreateFromDrag ==
    EndedGesture("CREATE") =>
        /\ Len(emitted) = 1
        /\ emitted[1].type = "create"
        /\ emitted[1].pos = track.startWorld
        /\ emitted[1].vel =
             Vec(MulDiv(FSub(track.endWorld.x, track.startWorld.x), 5, 100),
                 MulDiv(FSub(track.endWorld.y, track.startWorld.y), 5, 100))
        /\ (track.still => emitted[1].vel = ZeroVec)
        /\ Len(bodies) > 0
        /\ bodies[Len(bodies)].pos = emitted[1].pos
        /\ bodies[Len(bodies)].vel = emitted[1].vel

\* a body created by a drag, with a velocity
C17_Witness ==
    /\ EndedGesture("CREATE")
    /\ ~track.still
    /\ Len(emitted) = 1
    /\ emitted[1].type = "create"
    /\ emitted[1].vel # ZeroVec
    /\ Len(bodiesRef) = 3

\* C18: a two-finger touch start ends any pan or creation in progress, in
\* either interaction mode, and from then until the next single-pointer down
\* no handler emits a create-body or a selection event.
C18_PinchEmitsNothing ==
    /\ (lastOp = "handleTouchStart" /\ track.fingers = 2) =>
           (~isDraggingRef /\ ~isCreatingRef)
    /\ track.pinched => emitted = <<>>

\* a creation in progress, a second finger, then all fingers lifted
C18_Witness ==
    /\ lastOp = "handleTouchEnd"
    /\ track.pinched
    /\ track.fingers = 0
    /\ ~track.wasIdle
    /\ track.mode = "CREATE"
    /\ interactionMode = "CREATE"
    /\ emitted = <<>>

\* C19: a pointer-leave emits no event, and a pointer-up that arrives with no
\* gesture in progress (after a leave, or with no pointer-down on the canvas)
\* emits neither a selection nor a create-body event.
C19_IdleUpSilent ==
    /\ lastOp = "onMouseLeave" => emitted = <<>>
    /\ (lastOp \in {"handleMouseUp", "handleTouchEnd"} /\ track.wasIdle) =>
           emitted = <<>>

\* C20: after a cancel the gesture machine is idle: no pan and no creation is
\* in progress, a later move neither pans the viewport nor moves the end of a
\* creation vector, and no create-body event comes from the cancelled gesture.
C20_CancelReturnsToIdle ==
    /\ lastOp = "touchCancel" => (~isDraggingRef /\ ~isCreatingRef)
    /\ (track.cancelled /\ lastOp = "handleMouseMove") =>
           (viewport = pre.viewport /\ creationEndRef = pre.creationEndRef)
    /\ (track.cancelled /\ lastOp = "handleMouseUp") =>
           \A i \in 1..Len(emitted) : emitted[i].type # "create"

-----------------------------------------------------------------------------
(* Properties of the frame loop and of the integration step.               *)

\* C21: a frame callback of the paused simulation, and the pause and the
\* resume themselves, leave the internal list (pos, vel and trail of every
\* body) and the time accumulator as they are, so that the first frame after
\* resuming integrates from the state at the moment of pausing.
C21_PauseKeepsState ==
    [][((lastOp' = "render" /\ ~isRunning) \/ lastOp' = "feedIsRunning") =>
          (bodiesRef' = bodiesRef /\ timeRef' = timeRef)]_vars

\* a frame of the paused simulation after a frame that moved a body and
\* lengthened its trail
C21_Witness ==
    /\ lastOp = "render"
    /\ ~isRunning
    /\ bodiesRef = pre
    /\ timeRef # 0
    /\ \E i \in 1..Len(bodiesRef) :
         /\ i <= Len(bodies)
         /\ bodiesRef[i].id = bodies[i].id
         /\ bodiesRef[i].pos # bodies[i].pos
         /\ Len(bodiesRef[i].trail) > Len(bodies[i].trail)

\* C22: a frame callback of the running simulation with a non-empty internal
\* list applies updatePhysics four times with dt = 1 / 240, each call on the
\* result of the one before, and the internal list after the frame is the
\* result of the fourth call.
C22_FourSubSteps ==
    (lastOp = "render" /\ isRunning /\ Len(pre) > 0) =>
        LET s1 == updatePhysics(pre, config, 240)
            s2 == updatePhysics(s1, config, 240)
            s3 == updatePhysics(s2, config, 240)
            s4 == updatePhysics(s3, config, 240)
        IN  bodiesRef = s4

\* a frame whose sub-steps each moved a body
C22_Witness ==
    /\ lastOp = "render" /\ isRunning /\ Len(pre) > 0
    /\ LET s1 == updatePhysics(pre, config, 240)
           s2 == updatePhysics(s1, config, 240)
           s3 == updatePhysics(s2, config, 240)
       IN  /\ s1 # pre /\ s2 # s1 /\ s3 # s2 /\ bodiesRef # s3
           /\ bodiesRef # updatePhysics(pre, config, 60)

\* the configurations that differ from cfg in nothing but collisionEnabled,
\* waveAmplitude, waveFrequency, showTrails, showGrid and trailFade: each
\* field changed alone, and all changed together
RenderVariants(cfg) ==
    { [cfg EXCEPT !.collisionEnabled = ~cfg.collisionEnabled],
      [cfg EXCEPT !.waveAmplitude = FAdd(cfg.waveAmplitude, Unit)],
      [cfg EXCEPT !.waveFrequency = FAdd(cfg.waveFrequency, Unit)],
      [cfg EXCEPT !.showTrails = ~cfg.showTrails],
      [cfg EXCEPT !.showGrid = ~cfg.showGrid],
      [cfg EXCEPT !.trailFade = ~cfg.trailFade],
      [cfg EXCEPT !.collisionEnabled = ~cfg.collisionEnabled,
                  !.waveAmplitude = FAdd(cfg.waveAmplitude, Unit),
                  !.waveFrequency = FAdd(cfg.waveFrequency, Unit),
                  !.showTrails = ~cfg.showTrails,
                  !.showGrid = ~cfg.showGrid,
                  !.trailFade = ~cfg.trailFade] }

\* C23: updatePhysics returns the same list for configurations that differ
\* only in collisionEnabled, waveAmplitude, waveFrequency, showTrails,
\* showGrid or trailFade.
C23_RenderOptionsIgnored ==
    lastOp = "updatePhysics" =>
        \A cfg2 \in RenderVariants(preIn.cfg) :
            updatePhysics(pre, cfg2, preIn.hz) = bodiesRef

\* a step of two bodies that attract each other
C23_Witness ==
    /\ lastOp = "updatePhysics"
    /\ Len(pre) = 2
    /\ accumulateForces(pre, preIn.cfg)[1] # ZeroVec
    /\ bodiesRef # pre

\* equality of two numbers as === decides it: NaN equals nothing
FEq(a, b) == ~IsNaN(a) /\ ~IsNaN(b) /\ a = b

\* what the pair (i, j) of list bs adds to the zero forces
contribution(bs, cfg, i, j) == pairForce(bs, cfg, [k \in 1..Len(bs) |-> ZeroVec], i, j)

\* what the pair (i, j) adds is finite: no overflow to an infinity, no NaN
FiniteContribution(bs, cfg, i, j) ==
    LET c == contribution(bs, cfg, i, j)
    IN  FiniteVec(c[i]) /\ FiniteVec(c[j])

RECURSIVE sumForces(_, _)
\* the sum of the first n accumulated forces
sumForces(forces, n) ==
    IF n = 0 THEN ZeroVec
    ELSE LET rest == sumForces(forces, n - 1)
         IN  Vec(FAdd(rest.x, forces[n].x), FAdd(rest.y, forces[n].y))

C25_ResizeKeepsState ==
    [][lastOp' = "handleResize" =>
          /\ viewport' = viewport
          /\ bodiesRef' = bodiesRef
          /\ bodies' = bodies
          /\ gestureVars' = gestureVars]_vars

\* a resize during a pan that has moved the camera
C25_Witness ==
    /\ lastOp = "handleResize"
    /\ canvasSize # windowSize
    /\ isDraggingRef /\ isPanRef
    /\ viewport \notin PointerViews
    /\ Len(bodiesRef) > 0

\* C26: the viewport a two-finger move produces is the updater's result for the
\* distance and the midpoint recorded by the previous tick, whether the updater
\* ran inside the handler or after it.
C26_PinchReadsPreviousTick ==
    PinchMoved =>
        viewport = pinchViewport(pre.viewport,
                                 touchDistance(preIn[1], preIn[2]),
                                 touchCenter(preIn[1], preIn[2]),
                                 pre.dist, pre.center)

-----------------------------------------------------------------------------
(* Properties of one call of updatePhysics.                                *)

\* the list with every body free to move
Unfix(bs) == [k \in 1..Len(bs) |-> [bs[k] EXCEPT !.isFixed = FALSE]]

\* C27: a body that is not fixed receives, from a list in which other bodies
\* are fixed, the force it receives from the same list with those bodies not
\* fixed, and leaves the step as it would leave that one.
C27_FixedStillAttracts ==
    lastOp = "updatePhysics" =>
        \A i \in 1..Len(pre) :
            ~pre[i].isFixed =>
                /\ accumulateForces(pre, preIn.cfg)[i]
                      = accumulateForces(Unfix(pre), preIn.cfg)[i]
                /\ bodiesRef[i] = updatePhysics(Unfix(pre), preIn.cfg, preIn.hz)[i]

\* a free body was accelerated by a fixed one
C27_Witness ==
    /\ lastOp = "updatePhysics"
    /\ Len(pre) = 2
    /\ pre[1].isFixed /\ ~pre[2].isFixed
    /\ bodiesRef[2].vel # pre[2].vel
    /\ FiniteVec(bodiesRef[2].vel)

\* v + (F / mass) * dt * timeScale for body i of the list bs
steppedVel(bs, cfg, hz, i) ==
    LET F == accumulateForces(bs, cfg)[i]
    IN  Vec(FAdd(bs[i].vel.x, ScaleDt(FDiv(F.x, bs[i].mass), hz, cfg.timeScale)),
            FAdd(bs[i].vel.y, ScaleDt(FDiv(F.y, bs[i].mass), hz, cfg.timeScale)))

\* p + v * dt * timeScale
advanced(p, v, cfg, hz) ==
    Vec(FAdd(p.x, ScaleDt(v.x, hz, cfg.timeScale)),
        FAdd(p.y, ScaleDt(v.y, hz, cfg.timeScale)))

\* body i of bs is not fixed and its update is kept (no NaN in it)
Stepped(bs, cfg, hz, i) ==
    LET v == steppedVel(bs, cfg, hz, i)
        p == advanced(bs[i].pos, v, cfg, hz)
    IN  /\ ~bs[i].isFixed
        /\ ~IsNaN(v.x) /\ ~IsNaN(v.y) /\ ~IsNaN(p.x) /\ ~IsNaN(p.y)

\* C28: a body that is not fixed and whose update is kept has
\* v' = v + (F / mass) * dt * timeScale and p' = p + v' * dt * timeScale after
\* the step: the position moves with the new velocity.
C28_VelocityThenPosition ==
    lastOp = "updatePhysics" =>
        \A i \in 1..Len(pre) :
            Stepped(pre, preIn.cfg, preIn.hz, i) =>
                /\ bodiesRef[i].vel = steppedVel(pre, preIn.cfg, preIn.hz, i)
                /\ bodiesRef[i].pos = advanced(pre[i].pos, bodiesRef[i].vel,
                                               preIn.cfg, preIn.hz)

\* a step that changed a velocity, where the old velocity would have led to
\* another position
C28_Witness ==
    /\ lastOp = "updatePhysics"
    /\ \E i \in 1..Len(pre) :
         /\ Stepped(pre, preIn.cfg, preIn.hz, i)
         /\ FiniteVec(bodiesRef[i].pos)
         /\ bodiesRef[i].vel # pre[i].vel
         /\ bodiesRef[i].pos # advanced(pre[i].pos, pre[i].vel, preIn.cfg, preIn.hz)

\* the last n elements of the sequence t (all of t when it is shorter)
LastN(t, n) ==
    LET m == IF n < Len(t) THEN n ELSE Len(t)
    IN  [k \in 1..m |-> t[Len(t) - m + k]]

\* the trail is empty or its last point is more than 10 (squared) from p
FarFromLast(trail, p) ==
    \/ Len(trail) = 0
    \/ LET ex == FSub(p.x, trail[Len(trail)].x)
           ey == FSub(p.y, trail[Len(trail)].y)
       IN  FGt(FAdd(FMul(ex, ex), FMul(ey, ey)), 10 * Unit)

\* C29: after a step the trail of a body is the last trailLength elements of
\* (old trail, new position) if the body was moved and its old trail is empty
\* or ends more than 10 (squared distance) from the new position, and is the
\* old trail otherwise.
C29_TrailAppend ==
    lastOp = "updatePhysics" =>
        \A i \in 1..Len(pre) :
            bodiesRef[i].trail =
                IF /\ Stepped(pre, preIn.cfg, preIn.hz, i)
                   /\ FarFromLast(pre[i].trail, bodiesRef[i].pos)
                THEN LastN(Append(pre[i].trail, bodiesRef[i].pos),
                           preIn.cfg.trailLength)
                ELSE pre[i].trail

\* an append to a full trail of two points: the older one is evicted
C29_Witness ==
    /\ lastOp = "updatePhysics"
    /\ \E i \in 1..Len(pre) :
         /\ Len(pre[i].trail) = 2
         /\ preIn.cfg.trailLength = 2
         /\ pre[i].trail[1] # pre[i].trail[2]
         /\ bodiesRef[i].trail = <<pre[i].trail[2], bodiesRef[i].pos>>
         /\ bodiesRef[i].pos # pre[i].trail[2]

-----------------------------------------------------------------------------
(* Properties of panning, of the snapshot, of creation and of selection.   *)

\* a single pointer went down in VIEW mode and has only moved since
PanInProgress ==
    /\ ~track.idle
    /\ track.clean
    /\ track.mode = "VIEW"

\* C31: while a single pointer that went down at p0 in VIEW mode has only
\* moved, the last time to pk, the viewport offset is the offset at the
\* pointer-down plus (pk - p0), however large, and the zoom is the zoom at the
\* pointer-down.
C31_PanAddsDisplacement ==
    PanInProgress =>
        /\ viewport.offset =
              Vec(FAdd(track.offsetAtDown.x, FSub(track.lastPos.x, track.downPos.x)),
                  FAdd(track.offsetAtDown.y, FSub(track.lastPos.y, track.downPos.y)))
        /\ viewport.zoom = track.zoomAtDown

\* the second move of a pan, after a first move that had left the position of
\* the pointer-down
C31_Witness ==
    /\ PanInProgress
    /\ lastOp \in {"handleMouseMove", "handleTouchMove"}
    /\ pre.viewport.offset # track.offsetAtDown
    /\ viewport.offset # pre.viewport.offset
    /\ viewport.offset # track.offsetAtDown

\* C32: the single-finger move that follows the lifting of one of two fingers
\* shifts the offset, in VIEW mode, by the displacement of the remaining
\* finger from where it was when the other one was lifted, and leaves the
\* zoom; in CREATE mode it leaves the viewport as it is.
C32_NoJumpAfterPinch ==
    [][(/\ lastOp = "handleTouchEnd"
        /\ track.fingers = 1
        /\ lastOp' = "handleTouchMove") =>
           viewport' =
              IF interactionMode = "VIEW"
              THEN [zoom |-> viewport.zoom,
                    offset |-> Vec(FAdd(viewport.offset.x,
                                        FSub(preIn'[1].x, preIn[1].x)),
                                   FAdd(viewport.offset.y,
                                        FSub(preIn'[1].y, preIn[1].y)))]
              ELSE viewport]_vars

\* the move that followed the lifting of a finger panned
C32_Witness ==
    /\ lastOp = "handleTouchMove"
    /\ pre.resumed
    /\ track.pinched
    /\ interactionMode = "VIEW"
    /\ viewport.offset # pre.viewport.offset

\* the initial positions and velocities of a list
motionOf(bs) == [i \in 1..Len(bs) |-> [pos |-> bs[i].pos, vel |-> bs[i].vel]]

\* C33: right after a scenario was loaded, by the mount effect, by the shuffle
\* button or by the scenario menu, the stored snapshot holds the positions and
\* velocities of the list that was loaded (these are what a reset restores).
C33_SnapshotFollowsLoad ==
    lastOp \in {"mount", "loadRandomScenario", "loadScenario"} =>
        motionOf(initialBodies) = motionOf(bodies)

\* what a step may not change of a body
staticOf(b) ==
    [id |-> b.id, mass |-> b.mass, density |-> b.density, radius |-> b.radius,
     color |-> b.color, isFixed |-> b.isFixed]

\* C34: the list a step returns has the length of the list it was given and,
\* place by place, the same id, mass, density, radius, color and isFixed; a
\* fixed body also keeps pos, vel and trail.
C34_StepKeepsIdentity ==
    lastOp = "updatePhysics" =>
        /\ Len(bodiesRef) = Len(pre)
        /\ \A i \in 1..Len(pre) :
              /\ staticOf(bodiesRef[i]) = staticOf(pre[i])
              /\ DOMAIN bodiesRef[i] = DOMAIN pre[i]
              /\ pre[i].isFixed => bodiesRef[i] = pre[i]

\* a step on a fixed and a free body in which the free one got another
\* position, velocity and trail
C34_Witness ==
    /\ lastOp = "updatePhysics"
    /\ Len(pre) = 2
    /\ pre[1].isFixed /\ ~pre[2].isFixed
    /\ bodiesRef[2].pos # pre[2].pos
    /\ bodiesRef[2].vel # pre[2].vel
    /\ bodiesRef[2].trail # pre[2].trail

\* C35: a pointer-up that emits a create event leaves an internal list that is
\* the list before it, with pos, vel, trail and id of every body as they
\* were, followed by one body that is not fixed, has an empty trail and has
\* the position and the velocity of the event.
C35_CreateAppendsOne ==
    [][(/\ lastOp' \in {"handleMouseUp", "handleTouchEnd"}
        /\ emitted' # <<>>
        /\ emitted'[1].type = "create") =>
           LET n == Len(bodiesRef)
           IN  /\ Len(bodiesRef') = n + 1
               /\ \A i \in 1..n :
                     /\ bodiesRef'[i].id = bodiesRef[i].id
                     /\ bodiesRef'[i].pos = bodiesRef[i].pos
                     /\ bodiesRef'[i].vel = bodiesRef[i].vel
                     /\ bodiesRef'[i].trail = bodiesRef[i].trail
               /\ bodiesRef'[n + 1].pos = emitted'[1].pos
               /\ bodiesRef'[n + 1].vel = emitted'[1].vel
               /\ bodiesRef'[n + 1].trail = <<>>
               /\ ~bodiesRef'[n + 1].isFixed
               /\ \A i \in 1..n : bodiesRef'[n + 1].id # bodiesRef[i].id]_vars

\* a body was created after frames had moved the two bodies of the list away
\* from the positions of the bodies prop and given them a trail
C35_Witness ==
    /\ lastOp = "handleMouseUp"
    /\ emitted # <<>>
    /\ emitted[1].type = "create"
    /\ Len(bodiesRef) = 3
    /\ bodiesRef[1].pos # bodies[1].pos
    /\ bodiesRef[1].trail # <<>>
    /\ bodiesRef[3].vel # ZeroVec

\* C36: selectedBodyId is null (0 in the model) or the id of a body of the
\* current body list.
C36_SelectionInList ==
    \/ selectedBodyId = 0
    \/ \E i \in 1..Len(bodies) : bodies[i].id = selectedBodyId

\* the last handler was a pointer-up that emitted a create event
Created ==
    /\ lastOp \in {"handleMouseUp", "handleTouchEnd"}
    /\ emitted # <<>>
    /\ emitted[1].type = "create"

\* C37: a create event comes from a pointer that went down in CREATE mode with
\* no pointer-up, pointer-leave or two-finger start since; after a change of
\* the interaction mode no pan and no creation is in progress; and a pan and a
\* creation are never in progress together.
C37_GestureStateSound ==
    /\ Created => (~track.wasIdle /\ ~track.pinched)
    /\ lastOp = "toggleInteractionMode" => (~isDraggingRef /\ ~isCreatingRef)
    /\ ~(isDraggingRef /\ isCreatingRef)

\* C38: once the canvas is mounted the browser holds exactly one frame
\* callback, and requestRef.current is its handle, whatever handlers have
\* changed the dependencies of the callback and however many frames have run.
C38_OneFramePending ==
    lastOp # "init" => frameLoop = [pending |-> 1, refPending |-> TRUE]

\* a frame ran while the simulation was running, that is after the play button
\* had rebuilt the callback, and two frames or more have run
C38_Witness ==
    /\ lastOp = "render"
    /\ isRunning
    /\ count >= 2
    /\ frameLoop.pending = 1

\* C39: the zoom after a wheel event is the zoom handleWheel computes from the
\* zoom the viewport had when the event arrived, that is from the zoom the
\* previous event left.
C39_WheelAccumulates ==
    [][lastOp' = "handleWheel" =>
          viewport'.zoom = wheelZoom(viewport.zoom, preIn'.deltaY)]_vars

====
